---- MODULE Spec2Model ----
(***************************************************************************)
(* FitTrack authentication core: AuthService (register_user, login,        *)
(* refresh_access_token), the token codec (create_access_token,            *)
(* create_refresh_token, decode_token), the password functions, the User   *)
(* row with verify_email, the bearer gate get_current_user and the three   *)
(* auth endpoints that map service results to HTTP statuses.               *)
(*                                                                         *)
(* Python values are modelled with their type where the code tests it:     *)
(* a str is [t |-> "str", v |-> n], a uuid.UUID is [t |-> "UUID", v |-> n]; *)
(* n = 0 is the empty string.  Time is counted in minutes.                 *)
(***************************************************************************)
EXTENDS Integers, Sequences, FiniteSets, TLC

----------------------------------------------------------------------------
(* Program constants                                                       *)

ACCESS_TOKEN_EXPIRE_MINUTES == 30
REFRESH_TOKEN_EXPIRE_DAYS == 7
BCRYPT_ROUNDS == 12
MINIMUM_AGE == 18
INELIGIBLE_STATES == {"NY", "FL", "RI"}
JWT_ALGORITHM == "RS256"

\* timedelta(days=REFRESH_TOKEN_EXPIRE_DAYS) in minutes
RefreshMinutes == REFRESH_TOKEN_EXPIRE_DAYS * 24 * 60

\* Python's None, for every optional column and return value
None == [none |-> TRUE]

\* a timezone-aware UTC datetime, by its minute
DateTime(minute) == [utc |-> minute]

----------------------------------------------------------------------------
(* Bounds of the model                                                     *)

\* identifiers uuid4() can draw from, for rows and again for tokens
MaxUuid == 4
\* register requests in flight at the same time (SpecRace)
MaxRequests == 2

Emails == {"a@example.com", "b@example.com"}
Roles == {"user", "premium", "admin"}
Statuses == {"pending", "active", "suspended", "banned"}

\* The instants the clock visits: the start and the first minute after the
\* refresh lifetime, when every token issued at the start has expired
Instants == {0, RefreshMinutes + 1}

----------------------------------------------------------------------------
(* Python values                                                           *)

PyStr(n) == [t |-> "str", v |-> n]
PyUuid(n) == [t |-> "UUID", v |-> n]

\* str(x): the canonical text of a UUID, a str unchanged
Str(x) == [t |-> "str", v |-> x.v]

\* isinstance(x, str)
IsInstanceStr(x) == x.t = "str"

\* truth value of an optional str: None and "" are falsy
Truthy(x) == x # None /\ x.v # 0

\* uuid4() draws a random 122-bit identifier: two draws differ.  A draw is
\* modelled as the least identifier not in use; identifiers of rows are drawn
\* from RowUuids and subjects of tokens from TokenUuids, so that a row and a
\* token never draw the same one.
RowUuids == 1..MaxUuid
TokenUuids == (MaxUuid + 1)..(2 * MaxUuid)

Uuid4(pool, used) == CHOOSE n \in pool \ used : \A m \in pool \ used : n <= m

----------------------------------------------------------------------------
(* Passwords: a password is the tuple of its characters                    *)

UpperChars ==
    {"A","B","C","D","E","F","G","H","I","J","K","L","M",
     "N","O","P","Q","R","S","T","U","V","W","X","Y","Z"}
LowerChars ==
    {"a","b","c","d","e","f","g","h","i","j","k","l","m",
     "n","o","p","q","r","s","t","u","v","w","x","y","z"}
DigitChars == {"0","1","2","3","4","5","6","7","8","9"}
SpecialChars ==
    {"!","@","#","$","%","^","&","*","(",")",",",".","?","\"",":","{","}","|","<",">"}

\* "SecureP@ssw0rd123!"
PwSecure == <<"S","e","c","u","r","e","P","@","s","s","w","0","r","d","1","2","3","!">>
\* "WrongPassword123!"
PwWrong == <<"W","r","o","n","g","P","a","s","s","w","o","r","d","1","2","3","!">>
\* "NoSpecial1234"
PwNoSpecial == <<"N","o","S","p","e","c","i","a","l","1","2","3","4">>
\* "weak"
PwWeak == <<"w","e","a","k">>

\* the passwords offered at registration and at login
RegisterPasswords == {PwSecure, PwNoSpecial, PwWeak}
LoginPasswords == {PwSecure, PwWrong}

\* re.search(r"[...]", password)
HasChar(password, class) == \E i \in 1..Len(password) : password[i] \in class

MSG_PW_LENGTH == <<"Password","must","be","at","least","12","characters","long">>
MSG_PW_UPPER == <<"Password","must","contain","at","least","one","uppercase","letter">>
MSG_PW_LOWER == <<"Password","must","contain","at","least","one","lowercase","letter">>
MSG_PW_DIGIT == <<"Password","must","contain","at","least","one","digit">>
MSG_PW_SPECIAL == <<"Password","must","contain","at","least","one","special","character">>
MSG_PW_STRONG == <<"Password","is","strong">>

\* a policy that looks for a lowercase letter before an uppercase one
validate_password_strength_LowerBeforeUpper(password) ==
    IF Len(password) < 12 THEN [valid |-> FALSE, message |-> MSG_PW_LENGTH]
    ELSE IF ~HasChar(password, LowerChars) THEN [valid |-> FALSE, message |-> MSG_PW_LOWER]
    ELSE IF ~HasChar(password, UpperChars) THEN [valid |-> FALSE, message |-> MSG_PW_UPPER]
    ELSE IF ~HasChar(password, DigitChars) THEN [valid |-> FALSE, message |-> MSG_PW_DIGIT]
    ELSE IF ~HasChar(password, SpecialChars) THEN [valid |-> FALSE, message |-> MSG_PW_SPECIAL]
    ELSE [valid |-> TRUE, message |-> MSG_PW_STRONG]

validate_password_strength(password) ==
    IF Len(password) < 12 THEN [valid |-> FALSE, message |-> MSG_PW_LENGTH]
    ELSE IF ~HasChar(password, UpperChars) THEN [valid |-> FALSE, message |-> MSG_PW_UPPER]
    ELSE IF ~HasChar(password, LowerChars) THEN [valid |-> FALSE, message |-> MSG_PW_LOWER]
    ELSE IF ~HasChar(password, DigitChars) THEN [valid |-> FALSE, message |-> MSG_PW_DIGIT]
    ELSE IF ~HasChar(password, SpecialChars) THEN [valid |-> FALSE, message |-> MSG_PW_SPECIAL]
    ELSE [valid |-> TRUE, message |-> MSG_PW_STRONG]

\* bcrypt.gensalt(): a random salt
Salts == {"salt1"}

\* bcrypt keys on the first 72 bytes of the password
BCRYPT_KEY_BYTES == 72
Key(password) ==
    IF Len(password) > BCRYPT_KEY_BYTES
    THEN SubSeq(password, 1, BCRYPT_KEY_BYTES)
    ELSE password

\* bcrypt.hashpw(password, salt): the digest is a function of the salt, the cost
\* and the first 72 bytes of the password, and of nothing else
Bcrypt(password, salt, rounds) ==
    [salt |-> salt, rounds |-> rounds, of |-> Key(password)]

hash_password(password, salt) ==
    [prefix |-> "$2b$", rounds |-> BCRYPT_ROUNDS, salt |-> salt,
     digest |-> Bcrypt(password, salt, BCRYPT_ROUNDS)]

\* bcrypt.checkpw: hash the candidate with the stored salt and cost, compare
verify_password(plain_password, hashed_password) ==
    Bcrypt(plain_password, hashed_password.salt, hashed_password.rounds)
        = hashed_password.digest

\* The bcrypt package is not pinned: before 5.0 hashpw and checkpw cut a
\* password longer than 72 bytes, from 5.0 on they raise ValueError for it
BcryptBuilds == {"truncates", "raises"}

Raised == [raised |-> TRUE, value |-> None]
Returned(value) == [raised |-> FALSE, value |-> value]

\* a stored hash that is no bcrypt hash
MalformedHash == [text |-> "hash123"]

\* hash_password as called: the hash, or the exception of bcrypt.hashpw
hash_password_call(build, password, salt) ==
    IF build = "raises" /\ Len(password) > BCRYPT_KEY_BYTES THEN Raised
    ELSE Returned(hash_password(password, salt))

\* verify_password as called: the boolean, or the exception of bcrypt.checkpw
\* (ValueError: Invalid salt for a string that is no bcrypt hash)
verify_password_call(build, plain_password, hashed_password) ==
    IF "digest" \notin DOMAIN hashed_password THEN Raised
    ELSE IF build = "raises" /\ Len(plain_password) > BCRYPT_KEY_BYTES THEN Raised
    ELSE Returned(verify_password(plain_password, hashed_password))

----------------------------------------------------------------------------
(* Token codec                                                             *)

\* RS256 signature of the claims under the private key of the loaded pair
Sign(claims) == [key |-> "jwt_private_key.pem", over |-> claims]

\* jwt.encode(payload, _PRIVATE_KEY, algorithm=JWT_ALGORITHM)
JwtEncode(payload) == [alg |-> JWT_ALGORITHM, claims |-> payload, sig |-> Sign(payload)]

\* an access token with the email and the role in each other's place
create_access_token_SwapsEmailRole(user_id, email, role, expires_delta, now) ==
    JwtEncode([sub |-> Str(user_id), email |-> role, role |-> email,
               exp |-> now + expires_delta, iat |-> now])

create_access_token(user_id, email, role, expires_delta, now) ==
    JwtEncode([sub |-> Str(user_id), email |-> email, role |-> role,
               exp |-> now + expires_delta, iat |-> now])

\* a refresh token that lives REFRESH_TOKEN_EXPIRE_DAYS minutes
create_refresh_token_DaysAsMinutes(user_id, now) ==
    JwtEncode([sub |-> Str(user_id), type |-> "refresh",
               exp |-> now + REFRESH_TOKEN_EXPIRE_DAYS, iat |-> now])

create_refresh_token(user_id, now) ==
    JwtEncode([sub |-> Str(user_id), type |-> "refresh",
               exp |-> now + RefreshMinutes, iat |-> now])

\* "invalid.token.here": three segments that are no JWT
MalformedToken == [garbage |-> "invalid.token.here"]

\* the token with its signature segment altered
Tamper(token) == [token EXCEPT !.sig = [key |-> "altered", over |-> token.claims]]

\* the token re-signed under another algorithm, with the public key as secret
WrongAlgorithm(token) ==
    [token EXCEPT !.alg = "HS256",
                  !.sig = [key |-> "jwt_public_key.pem", over |-> token.claims]]

\* a decoding that does not look at exp
decode_token_NoExpiryCheck(token, now) ==
    IF "claims" \notin DOMAIN token THEN None
    ELSE IF token.alg # JWT_ALGORITHM THEN None
    ELSE IF token.sig # Sign(token.claims) THEN None
    ELSE token.claims

\* jwt.decode(token, _PUBLIC_KEY, algorithms=[JWT_ALGORITHM]); every JWTError
\* (malformed, wrong algorithm, bad signature, exp < now) gives None
decode_token(token, now) ==
    IF "claims" \notin DOMAIN token THEN None
    ELSE IF token.alg # JWT_ALGORITHM THEN None
    ELSE IF token.sig # Sign(token.claims) THEN None
    ELSE IF token.claims.exp < now THEN None
    ELSE token.claims

\* payload.get(key)
Get(payload, key) == IF key \in DOMAIN payload THEN payload[key] ELSE None

----------------------------------------------------------------------------
(* Dates: an ISO date string "YYYY-MM-DD" is the tuple <<y, m, d>>         *)

\* the calendar date of minute 0 of the clock
EpochDate == <<2026, 11, 5>>

\* date.today() at the given minute (the clock never leaves the epoch's month)
Today(now) == <<EpochDate[1], EpochDate[2], EpochDate[3] + (now \div (24 * 60))>>

IsLeap(y) == (y % 4 = 0 /\ y % 100 # 0) \/ y % 400 = 0

DaysInMonth(y, m) ==
    IF m = 2 THEN (IF IsLeap(y) THEN 29 ELSE 28)
    ELSE IF m \in {4, 6, 9, 11} THEN 30 ELSE 31

\* date.fromisoformat(s) raises ValueError unless s names a calendar date
IsIsoDate(s) ==
    /\ s[1] \in 1..9999
    /\ s[2] \in 1..12
    /\ s[3] \in 1..DaysInMonth(s[1], s[2])

\* (a.month, a.day) < (b.month, b.day)
MonthDayBefore(a, b) == a[2] < b[2] \/ (a[2] = b[2] /\ a[3] < b[3])

\* an age that counts calendar years only
_calculate_age_YearsOnly(birth_date, today) == today[1] - birth_date[1]

_calculate_age(birth_date, today) ==
    IF MonthDayBefore(today, birth_date)
    THEN today[1] - birth_date[1] - 1
    ELSE today[1] - birth_date[1]

\* born 1990-01-15; 18 on the epoch date; 18 the day after it; no calendar date
DobAdult == <<1990, 1, 15>>
DobEighteenToday == <<EpochDate[1] - MINIMUM_AGE, EpochDate[2], EpochDate[3]>>
DobEighteenTomorrow == <<EpochDate[1] - MINIMUM_AGE, EpochDate[2], EpochDate[3] + 1>>
DobNotADate == <<2008, 2, 30>>

Dobs == {DobAdult, DobEighteenToday, DobEighteenTomorrow, DobNotADate}

\* state_of_residence.upper()
Upper(state) ==
    CASE state = "ny" -> "NY"
      [] state = "fl" -> "FL"
      [] state = "ri" -> "RI"
      [] state = "tx" -> "TX"
      [] OTHER -> state

States == {"TX", "ny"}

----------------------------------------------------------------------------
(* The users table                                                         *)

\* User(...): the explicit columns and the column defaults
User(user_id, email, password_hash, status, role, email_verified, point_balance) ==
    [user_id |-> user_id,
     email |-> email,
     password_hash |-> password_hash,
     email_verified |-> email_verified,
     email_verified_at |-> None,
     status |-> status,
     role |-> role,
     premium_expires_at |-> None,
     point_balance |-> point_balance,
     last_login_at |-> None,
     deleted_at |-> None]

\* db.query(User).filter(User.email == email).first()
FirstByEmail(db, email) ==
    IF \E u \in db : u.email = email
    THEN CHOOSE u \in db : u.email = email
    ELSE None

\* db.query(User).filter(User.user_id == user_id).first()
FirstById(db, user_id) ==
    IF \E u \in db : u.user_id = user_id
    THEN CHOOSE u \in db : u.user_id = user_id
    ELSE None

\* the row u of db rewritten as v (an UPDATE by primary key)
Save(db, u, v) == (db \ {u}) \cup {v}

\* a verification that activates the account whatever its status is
verify_email_AlwaysActivates(self, now) ==
    [self EXCEPT !.email_verified = TRUE,
                 !.email_verified_at = DateTime(now),
                 !.status = "active"]

\* a verification that also lifts a suspension
verify_email_UnlocksSuspended(self, now) ==
    [self EXCEPT !.email_verified = TRUE,
                 !.email_verified_at = DateTime(now),
                 !.status = IF self.status \in {"pending", "suspended"}
                            THEN "active" ELSE self.status]

\* a verification that forgets the status
verify_email_KeepsStatus(self, now) ==
    [self EXCEPT !.email_verified = TRUE,
                 !.email_verified_at = DateTime(now)]

\* User.verify_email
verify_email(self, now) ==
    [self EXCEPT !.email_verified = TRUE,
                 !.email_verified_at = DateTime(now),
                 !.status = IF self.status = "pending" THEN "active" ELSE self.status]

\* a datetime without tzinfo, as a TIMESTAMP column comes back from SQLite
NaiveDateTime(minute) == [naive |-> minute]

\* a premium check that counts the minute of expiry as still premium
is_premium_NotBefore(self, now) ==
    IF self.role # "premium" THEN FALSE
    ELSE IF self.premium_expires_at = None THEN FALSE
    ELSE LET expires_at ==
                IF "naive" \in DOMAIN self.premium_expires_at
                THEN DateTime(self.premium_expires_at.naive)
                ELSE self.premium_expires_at
         IN expires_at.utc >= now

\* User.is_premium at the given minute
is_premium(self, now) ==
    IF self.role # "premium" THEN FALSE
    ELSE IF self.premium_expires_at = None THEN FALSE
    ELSE LET expires_at ==
                IF "naive" \in DOMAIN self.premium_expires_at
                THEN DateTime(self.premium_expires_at.naive)
                ELSE self.premium_expires_at
         IN expires_at.utc > now

\* SoftDeleteMixin.soft_delete: deleted_at = datetime.now(timezone.utc)
soft_delete(self, now) == [self EXCEPT !.deleted_at = DateTime(now)]

\* SoftDeleteMixin.restore: deleted_at = None
restore(self) == [self EXCEPT !.deleted_at = None]

\* SoftDeleteMixin.is_deleted
is_deleted(self) == self.deleted_at # None

\* User.is_active
is_active(self) == self.status = "active"

\* every identifier in use: rows, pending inserts, subjects of the given tokens
IdsOf(db) == {u.user_id.v : u \in db}
SubsOf(tokens) == {k.claims.sub.v : k \in {x \in tokens : "claims" \in DOMAIN x}}

----------------------------------------------------------------------------
(* AuthService                                                             *)

MSG_EXISTS == <<"Email","address","already","exists">>
\* f"You must be at least {MINIMUM_AGE} years old to register"
MSG_UNDERAGE == <<"You","must","be","at","least","18","years","old","to","register">>
MSG_REGISTERED == <<"User","registered","successfully",".","Please","verify","your","email",".">>
MsgIneligible(state) == <<"Registration","is","not","available","in",state,"at","this","time">>

Failure(message) == [success |-> FALSE, message |-> message]

\* a registration that checks the password policy before the email lookup
register_user_PasswordFirst(db, email, password, date_of_birth, state_of_residence, now, uuid, salt) ==
    IF ~validate_password_strength(password).valid
    THEN [raised |-> FALSE,
          result |-> Failure(validate_password_strength(password).message),
          added |-> {}]
    ELSE IF FirstByEmail(db, email) # None
    THEN [raised |-> FALSE, result |-> Failure(MSG_EXISTS), added |-> {}]
    ELSE IF ~IsIsoDate(date_of_birth)
    THEN [raised |-> TRUE, result |-> None, added |-> {}]
    ELSE IF _calculate_age(date_of_birth, Today(now)) < MINIMUM_AGE
    THEN [raised |-> FALSE, result |-> Failure(MSG_UNDERAGE), added |-> {}]
    ELSE IF Upper(state_of_residence) \in INELIGIBLE_STATES
    THEN [raised |-> FALSE,
          result |-> Failure(MsgIneligible(state_of_residence)),
          added |-> {}]
    ELSE LET user == User(Str(PyUuid(uuid)), email, hash_password(password, salt),
                          "pending", "user", FALSE, 0)
         IN [raised |-> FALSE,
             result |-> [success |-> TRUE, message |-> MSG_REGISTERED,
                         user_id |-> user.user_id, email |-> user.email],
             added |-> {user}]

\* a registration whose new account is active from the start
register_user_BornActive(db, email, password, date_of_birth, state_of_residence, now, uuid, salt) ==
    IF FirstByEmail(db, email) # None
    THEN [raised |-> FALSE, result |-> Failure(MSG_EXISTS), added |-> {}]
    ELSE IF ~validate_password_strength(password).valid
    THEN [raised |-> FALSE,
          result |-> Failure(validate_password_strength(password).message),
          added |-> {}]
    ELSE IF ~IsIsoDate(date_of_birth)
    THEN [raised |-> TRUE, result |-> None, added |-> {}]
    ELSE IF _calculate_age(date_of_birth, Today(now)) < MINIMUM_AGE
    THEN [raised |-> FALSE, result |-> Failure(MSG_UNDERAGE), added |-> {}]
    ELSE IF Upper(state_of_residence) \in INELIGIBLE_STATES
    THEN [raised |-> FALSE,
          result |-> Failure(MsgIneligible(state_of_residence)),
          added |-> {}]
    ELSE LET user == User(Str(PyUuid(uuid)), email, hash_password(password, salt),
                          "active", "user", FALSE, 0)
         IN [raised |-> FALSE,
             result |-> [success |-> TRUE, message |-> MSG_REGISTERED,
                         user_id |-> user.user_id, email |-> user.email],
             added |-> {user}]

\* a registration without the email lookup
register_user_NoEmailLookup(db, email, password, date_of_birth, state_of_residence, now, uuid, salt) ==
    IF ~validate_password_strength(password).valid
    THEN [raised |-> FALSE,
          result |-> Failure(validate_password_strength(password).message),
          added |-> {}]
    ELSE IF ~IsIsoDate(date_of_birth)
    THEN [raised |-> TRUE, result |-> None, added |-> {}]
    ELSE IF _calculate_age(date_of_birth, Today(now)) < MINIMUM_AGE
    THEN [raised |-> FALSE, result |-> Failure(MSG_UNDERAGE), added |-> {}]
    ELSE IF Upper(state_of_residence) \in INELIGIBLE_STATES
    THEN [raised |-> FALSE,
          result |-> Failure(MsgIneligible(state_of_residence)),
          added |-> {}]
    ELSE LET user == User(Str(PyUuid(uuid)), email, hash_password(password, salt),
                          "pending", "user", FALSE, 0)
         IN [raised |-> FALSE,
             result |-> [success |-> TRUE, message |-> MSG_REGISTERED,
                         user_id |-> user.user_id, email |-> user.email],
             added |-> {user}]

\* AuthService.register_user: what it returns (raised: date.fromisoformat raised
\* ValueError instead) and the rows it adds to the session.  uuid is the value uuid4() draws, salt the salt
\* bcrypt.gensalt() draws.
register_user(db, email, password, date_of_birth, state_of_residence, now, uuid, salt) ==
    IF FirstByEmail(db, email) # None
    THEN [raised |-> FALSE, result |-> Failure(MSG_EXISTS), added |-> {}]
    ELSE IF ~validate_password_strength(password).valid
    THEN [raised |-> FALSE,
          result |-> Failure(validate_password_strength(password).message),
          added |-> {}]
    ELSE IF ~IsIsoDate(date_of_birth)
    THEN [raised |-> TRUE, result |-> None, added |-> {}]
    ELSE IF _calculate_age(date_of_birth, Today(now)) < MINIMUM_AGE
    THEN [raised |-> FALSE, result |-> Failure(MSG_UNDERAGE), added |-> {}]
    ELSE IF Upper(state_of_residence) \in INELIGIBLE_STATES
    THEN [raised |-> FALSE,
          result |-> Failure(MsgIneligible(state_of_residence)),
          added |-> {}]
    ELSE LET user == User(Str(PyUuid(uuid)), email, hash_password(password, salt),
                          "pending", "user", FALSE, 0)
         IN [raised |-> FALSE,
             result |-> [success |-> TRUE, message |-> MSG_REGISTERED,
                         user_id |-> user.user_id, email |-> user.email],
             added |-> {user}]

MSG_INVALID_CREDENTIALS == <<"Invalid","email","or","password">>
MSG_VERIFY_EMAIL == <<"Please","verify","your","email","address","before","logging","in">>
MSG_SUSPENDED ==
    <<"Your","account","has","been","suspended",".","Please","contact","support",".">>
MSG_BANNED == <<"Your","account","has","been","banned",".">>
MSG_NOT_ACTIVE == <<"Your","account","is","not","active",".","Please","verify","your","email",".">>
MSG_LOGIN_OK == <<"Login","successful">>

\* the user_id argument login and refresh_access_token give the token codec:
\* uuid4() if isinstance(user.user_id, str) else user.user_id
TokenUserId(user, uuid) ==
    IF IsInstanceStr(user.user_id) THEN PyUuid(uuid) ELSE user.user_id

\* a login that lets a banned account through
LoginRejection_BannedPasses(user) ==
    IF ~user.email_verified THEN MSG_VERIFY_EMAIL
    ELSE IF user.status = "suspended" THEN MSG_SUSPENDED
    ELSE IF user.status \notin {"active", "banned"} THEN MSG_NOT_ACTIVE
    ELSE None

\* a login that looks at the status before the verification flag
LoginRejection_StatusFirst(user) ==
    IF user.status = "suspended" THEN MSG_SUSPENDED
    ELSE IF user.status = "banned" THEN MSG_BANNED
    ELSE IF ~user.email_verified THEN MSG_VERIFY_EMAIL
    ELSE IF user.status # "active" THEN MSG_NOT_ACTIVE
    ELSE None

\* login, the checks after the password: the failure message, or None
LoginRejection(user) ==
    IF ~user.email_verified THEN MSG_VERIFY_EMAIL
    ELSE IF user.status = "suspended" THEN MSG_SUSPENDED
    ELSE IF user.status = "banned" THEN MSG_BANNED
    ELSE IF user.status # "active" THEN MSG_NOT_ACTIVE
    ELSE None

\* a login whose summary is the row itself
LoginSuccess_ReturnsRow(db, user, now, uuidA, uuidR) ==
    [result |->
        [success |-> TRUE,
         message |-> MSG_LOGIN_OK,
         access_token |->
            create_access_token(TokenUserId(user, uuidA), user.email, user.role,
                                ACCESS_TOKEN_EXPIRE_MINUTES, now),
         refresh_token |-> create_refresh_token(TokenUserId(user, uuidR), now),
         user |-> user],
     db |-> Save(db, user, [user EXCEPT !.last_login_at = DateTime(now)])]

\* login, once every check has passed: last_login_at, the two tokens, the summary
LoginSuccess(db, user, now, uuidA, uuidR) ==
    [result |->
        [success |-> TRUE,
         message |-> MSG_LOGIN_OK,
         access_token |->
            create_access_token(TokenUserId(user, uuidA), user.email, user.role,
                                ACCESS_TOKEN_EXPIRE_MINUTES, now),
         refresh_token |-> create_refresh_token(TokenUserId(user, uuidR), now),
         user |-> [user_id |-> user.user_id, email |-> user.email,
                   role |-> user.role, point_balance |-> user.point_balance]],
     db |-> Save(db, user, [user EXCEPT !.last_login_at = DateTime(now)])]

\* a login that checks the verification flag before the password
login_VerifiedBeforePassword(db, email, password, now, uuidA, uuidR) ==
    LET user == FirstByEmail(db, email) IN
    IF user = None
    THEN [result |-> Failure(MSG_INVALID_CREDENTIALS), db |-> db]
    ELSE IF ~user.email_verified
    THEN [result |-> Failure(MSG_VERIFY_EMAIL), db |-> db]
    ELSE IF ~verify_password(password, user.password_hash)
    THEN [result |-> Failure(MSG_INVALID_CREDENTIALS), db |-> db]
    ELSE IF LoginRejection(user) # None
    THEN [result |-> Failure(LoginRejection(user)), db |-> db]
    ELSE LoginSuccess(db, user, now, uuidA, uuidR)

\* AuthService.login: the result and the store after it.  uuidA and uuidR are
\* the values the two uuid4() calls draw.
login(db, email, password, now, uuidA, uuidR) ==
    LET user == FirstByEmail(db, email) IN
    IF user = None
    THEN [result |-> Failure(MSG_INVALID_CREDENTIALS), db |-> db]
    ELSE IF ~verify_password(password, user.password_hash)
    THEN [result |-> Failure(MSG_INVALID_CREDENTIALS), db |-> db]
    ELSE IF LoginRejection(user) # None
    THEN [result |-> Failure(LoginRejection(user)), db |-> db]
    ELSE LoginSuccess(db, user, now, uuidA, uuidR)

MSG_REFRESH_INVALID == <<"Invalid","or","expired","refresh","token">>
MSG_REFRESH_PAYLOAD == <<"Invalid","token","payload">>
MSG_REFRESH_NOT_FOUND == <<"User","not","found">>
MSG_REFRESH_INACTIVE == <<"User","account","is","not","active">>
MSG_REFRESHED == <<"Access","token","refreshed">>

\* a refresh that does not look at the status of the account
refresh_access_token_AnyStatus(db, refresh_token, now, uuid) ==
    LET payload == decode_token(refresh_token, now) IN
    IF payload = None THEN Failure(MSG_REFRESH_INVALID)
    ELSE LET user_id == Get(payload, "sub") IN
    IF ~Truthy(user_id) THEN Failure(MSG_REFRESH_PAYLOAD)
    ELSE LET user == FirstById(db, user_id) IN
    IF user = None THEN Failure(MSG_REFRESH_NOT_FOUND)
    ELSE [success |-> TRUE,
          message |-> MSG_REFRESHED,
          access_token |->
             create_access_token(TokenUserId(user, uuid), user.email, user.role,
                                 ACCESS_TOKEN_EXPIRE_MINUTES, now)]

\* a refresh that treats a token issued before the latest login as revoked
refresh_access_token_RevokedByLogin(db, refresh_token, now, uuid) ==
    LET payload == decode_token(refresh_token, now) IN
    IF payload = None THEN Failure(MSG_REFRESH_INVALID)
    ELSE LET user_id == Get(payload, "sub") IN
    IF ~Truthy(user_id) THEN Failure(MSG_REFRESH_PAYLOAD)
    ELSE LET user == FirstById(db, user_id) IN
    IF user = None THEN Failure(MSG_REFRESH_NOT_FOUND)
    ELSE IF user.status # "active" THEN Failure(MSG_REFRESH_INACTIVE)
    ELSE IF user.last_login_at # None /\ DateTime(payload.iat) # user.last_login_at
    THEN Failure(MSG_REFRESH_INVALID)
    ELSE [success |-> TRUE,
          message |-> MSG_REFRESHED,
          access_token |->
             create_access_token(TokenUserId(user, uuid), user.email, user.role,
                                 ACCESS_TOKEN_EXPIRE_MINUTES, now)]

\* AuthService.refresh_access_token; uuid is the value uuid4() draws
refresh_access_token(db, refresh_token, now, uuid) ==
    LET payload == decode_token(refresh_token, now) IN
    IF payload = None THEN Failure(MSG_REFRESH_INVALID)
    ELSE LET user_id == Get(payload, "sub") IN
    IF ~Truthy(user_id) THEN Failure(MSG_REFRESH_PAYLOAD)
    ELSE LET user == FirstById(db, user_id) IN
    IF user = None THEN Failure(MSG_REFRESH_NOT_FOUND)
    ELSE IF user.status # "active" THEN Failure(MSG_REFRESH_INACTIVE)
    ELSE [success |-> TRUE,
          message |-> MSG_REFRESHED,
          access_token |->
             create_access_token(TokenUserId(user, uuid), user.email, user.role,
                                 ACCESS_TOKEN_EXPIRE_MINUTES, now)]

----------------------------------------------------------------------------
(* Bearer gate                                                             *)

\* a gate that does not look at the status of the account
get_current_user_AnyStatus(db, token, now) ==
    LET payload == decode_token(token, now) IN
    IF payload = None
    THEN [status |-> 401, detail |-> <<"Invalid","or","expired","credentials">>, user |-> None]
    ELSE LET user_id == Get(payload, "sub") IN
    IF ~Truthy(user_id)
    THEN [status |-> 401, detail |-> <<"Invalid","token","payload">>, user |-> None]
    ELSE LET user == FirstById(db, user_id) IN
    IF user = None
    THEN [status |-> 401, detail |-> <<"User","not","found">>, user |-> None]
    ELSE [status |-> 200, detail |-> <<>>, user |-> user]

\* a gate that answers an unknown account 404
get_current_user_NotFound404(db, token, now) ==
    LET payload == decode_token(token, now) IN
    IF payload = None
    THEN [status |-> 401, detail |-> <<"Invalid","or","expired","credentials">>, user |-> None]
    ELSE LET user_id == Get(payload, "sub") IN
    IF ~Truthy(user_id)
    THEN [status |-> 401, detail |-> <<"Invalid","token","payload">>, user |-> None]
    ELSE LET user == FirstById(db, user_id) IN
    IF user = None
    THEN [status |-> 404, detail |-> <<"User","not","found">>, user |-> None]
    ELSE IF user.status # "active"
    THEN [status |-> 403,
          detail |-> <<"Account","is",user.status,".","Please","contact","support",".">>,
          user |-> None]
    ELSE [status |-> 200, detail |-> <<>>, user |-> user]

\* a gate that hands on the account with the role claim of the token
get_current_user_RoleFromToken(db, token, now) ==
    LET payload == decode_token(token, now) IN
    IF payload = None
    THEN [status |-> 401, detail |-> <<"Invalid","or","expired","credentials">>, user |-> None]
    ELSE LET user_id == Get(payload, "sub") IN
    IF ~Truthy(user_id)
    THEN [status |-> 401, detail |-> <<"Invalid","token","payload">>, user |-> None]
    ELSE LET user == FirstById(db, user_id) IN
    IF user = None
    THEN [status |-> 401, detail |-> <<"User","not","found">>, user |-> None]
    ELSE IF user.status # "active"
    THEN [status |-> 403,
          detail |-> <<"Account","is",user.status,".","Please","contact","support",".">>,
          user |-> None]
    ELSE [status |-> 200, detail |-> <<>>,
          user |-> IF "role" \in DOMAIN payload
                   THEN [user EXCEPT !.role = payload.role]
                   ELSE user]

\* get_current_user: the user it returns (status 200) or the HTTPException
get_current_user(db, token, now) ==
    LET payload == decode_token(token, now) IN
    IF payload = None
    THEN [status |-> 401, detail |-> <<"Invalid","or","expired","credentials">>, user |-> None]
    ELSE LET user_id == Get(payload, "sub") IN
    IF ~Truthy(user_id)
    THEN [status |-> 401, detail |-> <<"Invalid","token","payload">>, user |-> None]
    ELSE LET user == FirstById(db, user_id) IN
    IF user = None
    THEN [status |-> 401, detail |-> <<"User","not","found">>, user |-> None]
    ELSE IF user.status # "active"
    THEN [status |-> 403,
          detail |-> <<"Account","is",user.status,".","Please","contact","support",".">>,
          user |-> None]
    ELSE [status |-> 200, detail |-> <<>>, user |-> user]

\* a role checker that looks at the first allowed role only
require_role_FirstRoleOnly(allowed_roles, current_user) ==
    IF current_user.role # allowed_roles[1]
    THEN [status |-> 403,
          detail |-> <<"Insufficient","permissions",".","Required","role",":">>
                        \o allowed_roles,
          user |-> None]
    ELSE [status |-> 200, detail |-> <<>>, user |-> current_user]

\* require_role(*allowed_roles): the role_checker it builds, applied to the
\* user get_current_user returned; ', '.join(allowed_roles) is the list itself
require_role(allowed_roles, current_user) ==
    IF \A i \in 1..Len(allowed_roles) : current_user.role # allowed_roles[i]
    THEN [status |-> 403,
          detail |-> <<"Insufficient","permissions",".","Required","role",":">>
                        \o allowed_roles,
          user |-> None]
    ELSE [status |-> 200, detail |-> <<>>, user |-> current_user]

\* get_current_admin, applied to the user get_current_user returned
get_current_admin(current_user) ==
    IF current_user.role # "admin"
    THEN [status |-> 403, detail |-> <<"Admin","access","required">>, user |-> None]
    ELSE [status |-> 200, detail |-> <<>>, user |-> current_user]

----------------------------------------------------------------------------
(* The auth endpoints: request schema, service call, status mapping, commit *)

\* str.lower(), word by word, of the words the messages are made of
LowerWord(w) ==
    CASE w = "Email" -> "email"
      [] w = "Password" -> "password"
      [] w = "Invalid" -> "invalid"
      [] w = "You" -> "you"
      [] w = "Your" -> "your"
      [] w = "User" -> "user"
      [] w = "Please" -> "please"
      [] w = "Registration" -> "registration"
      [] w = "Access" -> "access"
      [] w = "Login" -> "login"
      [] w = "TX" -> "tx"
      [] w = "NY" -> "ny"
      [] w = "FL" -> "fl"
      [] w = "RI" -> "ri"
      [] OTHER -> w

Lower(message) == [i \in 1..Len(message) |-> LowerWord(message[i])]

\* needle in message.lower()
InLower(needle, message) ==
    \E i \in 0..(Len(message) - Len(needle)) :
        \A j \in 1..Len(needle) : Lower(message)[i + j] = needle[j]

\* a table without the unique constraint on email
Commit_NoUniqueEmail(db, added) ==
    IF \E a \in added : \E u \in db : u.user_id = a.user_id
    THEN [raised |-> TRUE, db |-> db]
    ELSE [raised |-> FALSE, db |-> db \cup added]

\* db.commit() of a session holding the added rows: the INSERT is refused
\* (IntegrityError) when the primary key or the unique email is already stored
Commit(db, added) ==
    IF \E a \in added : \E u \in db : u.email = a.email \/ u.user_id = a.user_id
    THEN [raised |-> TRUE, db |-> db]
    ELSE [raised |-> FALSE, db |-> db \cup added]

\* RegisterRequest: password has min_length 12, state_of_residence length 2
RegisterRequestValid(request) == Len(request.password) >= 12

\* a status mapping that forgets .lower(): the words are compared as written
RegisterFailureStatus_NoLower(message) ==
    IF \E i \in 0..(Len(message) - 2) :
          message[i + 1] = "already" /\ message[i + 2] = "exists"
    THEN 409
    ELSE IF \E i \in 1..Len(message) : message[i] = "password" THEN 422
    ELSE 400

\* the status the register route gives a failed registration
RegisterFailureStatus(message) ==
    IF InLower(<<"already", "exists">>, message) THEN 409
    ELSE IF InLower(<<"password">>, message) THEN 422
    ELSE 400

\* the register route up to db.commit(): the answer it has already given (an
\* exception leaving the route, here ValueError, is answered 500), or status 0
\* and the rows its session holds
register_call(db, request, now, uuid, salt) ==
    IF ~RegisterRequestValid(request)
    THEN [status |-> 422, result |-> None, added |-> {}]
    ELSE LET out == register_user(db, request.email, request.password,
                                  request.date_of_birth, request.state_of_residence,
                                  now, uuid, salt) IN
    IF out.raised THEN [status |-> 500, result |-> None, added |-> {}]
    ELSE IF ~out.result.success
    THEN [status |-> RegisterFailureStatus(out.result.message),
          result |-> out.result, added |-> {}]
    ELSE [status |-> 0, result |-> out.result, added |-> out.added]

\* db.commit() and the 201 answer; an IntegrityError is answered 500
register_commit(db, call) ==
    IF Commit(db, call.added).raised
    THEN [status |-> 500, result |-> call.result, db |-> db]
    ELSE [status |-> 201, result |-> call.result, db |-> Commit(db, call.added).db]

\* the register route run to its end without interleaving
register_endpoint(db, request, now, uuid, salt) ==
    LET call == register_call(db, request, now, uuid, salt) IN
    IF call.status # 0
    THEN [status |-> call.status, result |-> call.result, db |-> db]
    ELSE register_commit(db, call)

\* a login route that stamps last_login_at on every attempt for a known email
login_endpoint_RecordsAttempt(db, email, password, now, uuidA, uuidR) ==
    LET out == login(db, email, password, now, uuidA, uuidR)
        user == FirstByEmail(db, email) IN
    IF ~out.result.success
    THEN [status |-> IF InLower(<<"invalid">>, out.result.message) THEN 401 ELSE 403,
          detail |-> out.result.message, result |-> out.result,
          db |-> IF user = None THEN db
                 ELSE Save(db, user, [user EXCEPT !.last_login_at = DateTime(now)])]
    ELSE [status |-> 200, detail |-> <<>>, result |-> out.result, db |-> out.db]

\* a login route that answers every failure 401
login_endpoint_AllFailures401(db, email, password, now, uuidA, uuidR) ==
    LET out == login(db, email, password, now, uuidA, uuidR) IN
    IF ~out.result.success
    THEN [status |-> 401,
          detail |-> out.result.message, result |-> out.result, db |-> db]
    ELSE [status |-> 200, detail |-> <<>>, result |-> out.result, db |-> out.db]

\* the login route
login_endpoint(db, email, password, now, uuidA, uuidR) ==
    LET out == login(db, email, password, now, uuidA, uuidR) IN
    IF ~out.result.success
    THEN [status |-> IF InLower(<<"invalid">>, out.result.message) THEN 401 ELSE 403,
          detail |-> out.result.message, result |-> out.result, db |-> db]
    ELSE [status |-> 200, detail |-> <<>>, result |-> out.result, db |-> out.db]

\* a refresh route that answers an unknown account 404
refresh_endpoint_NotFound404(db, refresh_token, now, uuid) ==
    LET result == refresh_access_token(db, refresh_token, now, uuid) IN
    IF ~result.success
    THEN [status |-> IF result.message = MSG_REFRESH_NOT_FOUND THEN 404 ELSE 401,
          detail |-> result.message, result |-> result]
    ELSE [status |-> 200, detail |-> <<>>, result |-> result]

\* the refresh route
refresh_endpoint(db, refresh_token, now, uuid) ==
    LET result == refresh_access_token(db, refresh_token, now, uuid) IN
    IF ~result.success
    THEN [status |-> 401, detail |-> result.message, result |-> result]
    ELSE [status |-> 200, detail |-> <<>>, result |-> result]

----------------------------------------------------------------------------
(* State                                                                   *)

VARIABLES
    users,   \* the committed rows of the users table
    now,     \* the clock, in minutes
    held,    \* the token pair the latest successful login returned, or None
    last,    \* the request being answered: its input and the answer, or Idle
    reqs,    \* SpecRace: the register requests in flight
    accepted, \* SpecReuse: the token refresh_access_token accepted last, or None
    _engine, \* the module global of database.py: the engine, or None
    calls    \* SpecEngine: each thread's position in get_engine

vars == <<users, now, held, last, reqs, accepted, _engine, calls>>

Requests == 1..MaxRequests

HeldTokens == IF held = None THEN {} ELSE {held.access_token, held.refresh_token}

\* row identifiers in use: stored rows and rows waiting for their commit
RowIdsInUse ==
    IdsOf(users)
    \cup {reqs[r].added.user_id.v : r \in {q \in Requests : reqs[q].pc = "added"}}

\* the uuid4() draws of a registration, of a login (two) and of a refresh
RegisterUuid == Uuid4(RowUuids, RowIdsInUse)
LoginUuidA == Uuid4(TokenUuids, {})
LoginUuidR == Uuid4(TokenUuids, {LoginUuidA})
RefreshUuid == Uuid4(TokenUuids, SubsOf(HeldTokens))

\* what a caller can hand the token codec as user_id: the UUID of a stored row,
\* a UUID no row has, the empty string
SubjectArgs == {PyUuid(n) : n \in IdsOf(users) \cup {RegisterUuid}} \cup {PyStr(0)}

EmailOfSubject(arg) ==
    IF FirstById(users, Str(arg)) # None
    THEN FirstById(users, Str(arg)).email
    ELSE "a@example.com"

\* the role the codec is given for a subject: the stored one
RoleOfSubject(arg) ==
    IF FirstById(users, Str(arg)) # None
    THEN FirstById(users, Str(arg)).role
    ELSE "user"

\* the instants a presented token of the given lifetime may have been issued
\* at: the start, now, and the minutes that put now on the last minute of the
\* lifetime and one minute past it
IssueTimes(lifetime) == {t \in {0, now, now - lifetime, now - lifetime - 1} : t >= 0}

\* tokens made by calling the codec directly: access tokens with the default
\* lifetime, access tokens born expired (a negative expires_delta), refresh
\* tokens
CodecTokens ==
    {create_access_token(a, EmailOfSubject(a), RoleOfSubject(a),
                         ACCESS_TOKEN_EXPIRE_MINUTES, iat) :
        a \in SubjectArgs, iat \in IssueTimes(ACCESS_TOKEN_EXPIRE_MINUTES)}
    \cup {create_access_token(a, EmailOfSubject(a), RoleOfSubject(a), -1, now) :
        a \in SubjectArgs}
    \cup {create_refresh_token(a, iat) :
        a \in SubjectArgs, iat \in IssueTimes(RefreshMinutes)}

\* every bearer or refresh token a client can present
Presentable ==
    HeldTokens
    \cup CodecTokens
    \cup {Tamper(k) : k \in HeldTokens}
    \cup {Tamper(create_refresh_token(PyUuid(n), now)) : n \in IdsOf(users)}
    \cup {MalformedToken}

\* the threads that serve requests; each calls get_engine through get_db
Threads == 1..(MaxRequests + 1)

\* no thread is inside get_engine, none has created or been handed an engine
IdleCalls == [t \in Threads |-> [pc |-> "idle", made |-> None, returned |-> {}]]

\* no request is being answered
Idle == [op |-> "none", issued |-> {}]

IdleRequests == [r \in Requests |-> [pc |-> "idle"]]

Init ==
    /\ users = {}
    /\ now = 0
    /\ held = None
    /\ last = Idle
    /\ reqs = IdleRequests
    /\ accepted = None
    /\ _engine = None
    /\ calls = IdleCalls

\* rows put into the table directly, as the test fixtures do: one account of
\* any status, verification flag and role, with 500 points
SeedUsers ==
    {User(PyStr(1), "a@example.com", hash_password(PwSecure, "salt1"),
          status, role, verified, 500) :
        status \in Statuses, role \in {"user", "admin"}, verified \in BOOLEAN}

InitSeeded ==
    /\ users \in {{u} : u \in SeedUsers}
    /\ now = 0
    /\ held = None
    /\ last = Idle
    /\ reqs = IdleRequests
    /\ accepted = None
    /\ _engine = None
    /\ calls = IdleCalls

----------------------------------------------------------------------------
(* Operations                                                              *)

RegisterRequests ==
    [email : Emails, password : RegisterPasswords,
     date_of_birth : Dobs, state_of_residence : States]

\* POST /api/v1/auth/register, served without interleaving
Register(request, salt) ==
    LET out == register_endpoint(users, request, now, RegisterUuid, salt) IN
    /\ last = Idle
    /\ users' = out.db
    /\ last' = [op |-> "register", request |-> request, result |-> out.result,
                status |-> out.status, issued |-> {}, before |-> users]
    /\ UNCHANGED <<now, held, reqs, accepted, _engine, calls>>

\* the verification flow: user.verify_email(); db.commit()
VerifyEmail(u) ==
    /\ last = Idle
    /\ u \in users
    /\ users' = Save(users, u, verify_email(u, now))
    /\ last' = [op |-> "verify_email", before |-> u, issued |-> {}]
    /\ UNCHANGED <<now, held, reqs, accepted, _engine, calls>>

\* POST /api/v1/auth/login
Login(email, password) ==
    LET out == login_endpoint(users, email, password, now, LoginUuidA, LoginUuidR) IN
    /\ last = Idle
    /\ users' = out.db
    /\ held' = IF out.result.success
               THEN [access_token |-> out.result.access_token,
                     refresh_token |-> out.result.refresh_token]
               ELSE held
    /\ last' = [op |-> "login", email |-> email, password |-> password,
                result |-> out.result, status |-> out.status,
                detail |-> out.detail,
                issued |-> IF out.result.success
                           THEN {out.result.access_token, out.result.refresh_token}
                           ELSE {}]
    /\ UNCHANGED <<now, reqs, accepted, _engine, calls>>

\* POST /api/v1/auth/refresh
Refresh(token) ==
    LET out == refresh_endpoint(users, token, now, RefreshUuid) IN
    /\ last = Idle
    /\ last' = [op |-> "refresh", token |-> token, result |-> out.result,
                status |-> out.status, detail |-> out.detail,
                issued |-> IF out.result.success THEN {out.result.access_token} ELSE {}]
    /\ UNCHANGED <<users, now, held, reqs, accepted, _engine, calls>>

\* a protected request: the bearer token goes through get_current_user
GetCurrentUser(token) ==
    /\ last = Idle
    /\ last' = [op |-> "get_current_user", token |-> token,
                response |-> get_current_user(users, token, now), issued |-> {}]
    /\ UNCHANGED <<users, now, held, reqs, accepted, _engine, calls>>

\* the administrative transitions of the account:
\* active -> suspended, suspended -> active, active -> banned
AdminSetStatus(u, from, to) ==
    /\ last = Idle
    /\ u \in users
    /\ u.status = from
    /\ users' = Save(users, u, [u EXCEPT !.status = to])
    /\ UNCHANGED <<now, held, last, reqs, accepted, _engine, calls>>

Suspend(u) == AdminSetStatus(u, "active", "suspended")
Restore(u) == AdminSetStatus(u, "suspended", "active")
Ban(u) == AdminSetStatus(u, "active", "banned")

\* time passes
Tick(t) ==
    /\ last = Idle
    /\ t > now
    /\ now' = t
    /\ UNCHANGED <<users, held, last, reqs, accepted, _engine, calls>>

\* the handler returns and its answer leaves the server; requests are served
\* one after the other
Respond ==
    /\ last # Idle
    /\ last' = Idle
    /\ UNCHANGED <<users, now, held, reqs, accepted, _engine, calls>>

Next ==
    \/ \E request \in RegisterRequests, salt \in Salts : Register(request, salt)
    \/ \E u \in users : VerifyEmail(u)
    \/ \E email \in Emails, password \in LoginPasswords : Login(email, password)
    \/ \E token \in Presentable : Refresh(token)
    \/ \E token \in Presentable : GetCurrentUser(token)
    \/ \E u \in users : Suspend(u)
    \/ \E u \in users : Restore(u)
    \/ \E u \in users : Ban(u)
    \/ \E t \in Instants : Tick(t)
    \/ Respond

Spec == Init /\ [][Next]_vars

\* the operations that read accounts, on a table seeded with one account
NextSeeded ==
    \/ \E email \in Emails, password \in LoginPasswords : Login(email, password)
    \/ \E token \in Presentable : Refresh(token)
    \/ \E token \in Presentable : GetCurrentUser(token)
    \/ \E t \in Instants : Tick(t)
    \/ Respond

SpecSeeded == InitSeeded /\ [][NextSeeded]_vars

----------------------------------------------------------------------------
(* Register requests served concurrently, each in its own session: the     *)
(* service call reads the committed rows, the commit comes later.          *)

RaceRequests ==
    [email : Emails, password : {PwSecure, PwNoSpecial},
     date_of_birth : {DobAdult, DobNotADate}, state_of_residence : States]

\* request r runs the route up to db.commit()
RaceCall(r, request, salt) ==
    LET call == register_call(users, request, now, RegisterUuid, salt) IN
    /\ reqs[r].pc = "idle"
    /\ reqs' = [reqs EXCEPT ![r] =
                  IF call.status = 0
                  THEN [pc |-> "added", request |-> request, result |-> call.result,
                        added |-> CHOOSE u \in call.added : TRUE]
                  ELSE [pc |-> "done", request |-> request, result |-> call.result,
                        status |-> call.status]]
    /\ UNCHANGED <<users, now, held, last, accepted, _engine, calls>>

\* request r commits and answers
RaceCommit(r) ==
    LET out == register_commit(users, [result |-> reqs[r].result,
                                       added |-> {reqs[r].added}]) IN
    /\ reqs[r].pc = "added"
    /\ users' = out.db
    /\ reqs' = [reqs EXCEPT ![r] =
                  [pc |-> "done", request |-> reqs[r].request,
                   result |-> reqs[r].result, status |-> out.status]]
    /\ UNCHANGED <<now, held, last, accepted, _engine, calls>>

NextRace ==
    \/ \E r \in Requests, request \in RaceRequests, salt \in Salts :
          RaceCall(r, request, salt)
    \/ \E r \in Requests : RaceCommit(r)

SpecRace == Init /\ [][NextRace]_vars

----------------------------------------------------------------------------
(* Registrations one after the other, each committed before the next       *)

NextRegister ==
    \/ \E request \in RegisterRequests, salt \in Salts : Register(request, salt)
    \/ \E t \in Instants : Tick(t)
    \/ Respond

SpecRegister == Init /\ [][NextRegister]_vars

----------------------------------------------------------------------------
(* Refresh tokens used again and again: a stored account, a clock that     *)
(* visits the first and the last minute of the refresh lifetime, logins    *)
(* and administrative transitions in between.                              *)

ReuseInstants == {0, 1, RefreshMinutes, RefreshMinutes + 1}

\* the refresh tokens a client can hold: those of the codec and of a login
ReuseTokens ==
    {create_refresh_token(a, iat) :
        a \in SubjectArgs, iat \in IssueTimes(RefreshMinutes)}
    \cup HeldTokens

\* POST /api/v1/auth/refresh, remembering the token it accepted and whether
\* the presented token is the one accepted before
Reuse(token) ==
    LET out == refresh_endpoint(users, token, now, RefreshUuid) IN
    /\ last = Idle
    /\ last' = [op |-> "refresh", token |-> token, result |-> out.result,
                status |-> out.status, detail |-> out.detail,
                issued |-> IF out.result.success THEN {out.result.access_token} ELSE {},
                earlier |-> accepted]
    /\ accepted' = IF out.result.success THEN token ELSE accepted
    /\ UNCHANGED <<users, now, held, reqs, _engine, calls>>

NextReuse ==
    \/ \E token \in ReuseTokens : Reuse(token)
    \/ \E email \in Emails, password \in LoginPasswords : Login(email, password)
    \/ \E u \in users : VerifyEmail(u)
    \/ \E u \in users : Suspend(u)
    \/ \E u \in users : Restore(u)
    \/ \E u \in users : Ban(u)
    \/ \E t \in ReuseInstants : Tick(t)
    \/ Respond

SpecReuse == InitSeeded /\ [][NextReuse]_vars

----------------------------------------------------------------------------
(* The life of an account: registration, verification, logins, refreshes,  *)
(* bearer requests and the administrative transitions, from an empty store *)

\* the tokens a client of these accounts can present: those of its login,
\* and tokens the codec makes now
LifecycleTokens ==
    HeldTokens
    \cup {create_refresh_token(a, now) : a \in SubjectArgs}
    \cup {create_access_token(a, EmailOfSubject(a), RoleOfSubject(a),
                              ACCESS_TOKEN_EXPIRE_MINUTES, now) : a \in SubjectArgs}

NextLifecycle ==
    \/ \E request \in RaceRequests, salt \in Salts : Register(request, salt)
    \/ \E u \in users : VerifyEmail(u)
    \/ \E email \in Emails, password \in LoginPasswords : Login(email, password)
    \/ \E token \in LifecycleTokens : Refresh(token)
    \/ \E token \in LifecycleTokens : GetCurrentUser(token)
    \/ \E u \in users : Suspend(u)
    \/ \E u \in users : Restore(u)
    \/ \E u \in users : Ban(u)
    \/ \E t \in Instants : Tick(t)
    \/ Respond

SpecLifecycle == Init /\ [][NextLifecycle]_vars

----------------------------------------------------------------------------
(* Role gates: a stored account of any role, requests through              *)
(* Depends(require_role(...)) and Depends(get_current_admin)               *)

RoleSeedUsers ==
    {User(PyStr(1), "a@example.com", hash_password(PwSecure, "salt1"),
          status, role, TRUE, 500) :
        status \in {"active", "suspended"}, role \in Roles}

InitRoles ==
    /\ users \in {{u} : u \in RoleSeedUsers}
    /\ now = 0
    /\ held = None
    /\ last = Idle
    /\ reqs = IdleRequests
    /\ accepted = None
    /\ _engine = None
    /\ calls = IdleCalls

\* the role lists the routes are declared with
AllowedRoleLists ==
    {<<"admin">>, <<"premium", "admin">>, <<"user", "premium">>, <<"user">>}

\* bearer tokens of the stored account, with any role claim, and of nobody
RoleTokens ==
    {create_access_token(a, EmailOfSubject(a), role,
                         ACCESS_TOKEN_EXPIRE_MINUTES, now) :
        a \in SubjectArgs, role \in Roles}

\* a request to a route declared with Depends(require_role(*allowed_roles)):
\* get_current_user first, then the role checker on the user it returned
RequireRole(allowed_roles, token) ==
    LET gate == get_current_user(users, token, now) IN
    /\ last = Idle
    /\ last' = [op |-> "require_role", allowed_roles |-> allowed_roles,
                token |-> token, gate |-> gate,
                response |-> IF gate.status # 200 THEN gate
                             ELSE require_role(allowed_roles, gate.user),
                issued |-> {}]
    /\ UNCHANGED <<users, now, held, reqs, accepted, _engine, calls>>

\* a request to a route declared with Depends(get_current_admin)
GetCurrentAdmin(token) ==
    LET gate == get_current_user(users, token, now) IN
    /\ last = Idle
    /\ last' = [op |-> "get_current_admin", token |-> token, gate |-> gate,
                response |-> IF gate.status # 200 THEN gate
                             ELSE get_current_admin(gate.user),
                issued |-> {}]
    /\ UNCHANGED <<users, now, held, reqs, accepted, _engine, calls>>

NextRoles ==
    \/ \E allowed_roles \in AllowedRoleLists, token \in RoleTokens :
          RequireRole(allowed_roles, token)
    \/ \E token \in RoleTokens : GetCurrentAdmin(token)
    \/ \E u \in users : Suspend(u)
    \/ \E u \in users : Restore(u)
    \/ Respond

SpecRoles == InitRoles /\ [][NextRoles]_vars

----------------------------------------------------------------------------
(* The token codec on its own: pairs of tokens are issued, time passes,    *)
(* tokens and altered tokens are decoded                                   *)

\* the clock: the start, the last minute of an access token issued at the
\* start and the minute after it, the same for a refresh token
CodecInstants ==
    {0, ACCESS_TOKEN_EXPIRE_MINUTES, ACCESS_TOKEN_EXPIRE_MINUTES + 1,
     RefreshMinutes, RefreshMinutes + 1}

\* expires_delta: the default, ten minutes, and one that has already passed
ExpiresDeltas == {ACCESS_TOKEN_EXPIRE_MINUTES, 10, -1}

\* user_id arguments: a UUID, and the string of a stored user_id
CodecUserIds == {PyUuid(1), PyStr(2)}

\* create_access_token(...) and create_refresh_token(...) at the same instant
IssuePair(user_id, email, role, expires_delta) ==
    LET access == create_access_token(user_id, email, role, expires_delta, now)
        refresh == create_refresh_token(user_id, now) IN
    /\ last = Idle
    /\ held' = [access_token |-> access, refresh_token |-> refresh,
                args |-> [user_id |-> user_id, email |-> email, role |-> role,
                          expires_delta |-> expires_delta]]
    /\ last' = [op |-> "issue", issued |-> {access, refresh}]
    /\ UNCHANGED <<users, now, reqs, accepted, _engine, calls>>

\* what decode_token can be given: the issued tokens, the same with the
\* signature altered or under another algorithm, and a string that is no JWT
DecodeTokens ==
    HeldTokens
    \cup {Tamper(k) : k \in HeldTokens}
    \cup {WrongAlgorithm(k) : k \in HeldTokens}
    \cup {MalformedToken}

\* decode_token(token)
Decode(token) ==
    /\ last = Idle
    /\ last' = [op |-> "decode_token", token |-> token,
                payload |-> decode_token(token, now), issued |-> {}]
    /\ UNCHANGED <<users, now, held, reqs, accepted, _engine, calls>>

NextCodec ==
    \/ \E user_id \in CodecUserIds, email \in Emails, role \in Roles,
          expires_delta \in ExpiresDeltas :
          IssuePair(user_id, email, role, expires_delta)
    \/ \E token \in DecodeTokens : Decode(token)
    \/ \E t \in CodecInstants : Tick(t)
    \/ Respond

SpecCodec == Init /\ [][NextCodec]_vars

----------------------------------------------------------------------------
(* The password functions on their own                                     *)

\* "alllowercase!" (no uppercase, no digit), "ALLUPPERCASE1" (no lowercase, no
\* special), "NoDigitsHereX" (no digit, no special), "1234567890!@#" (no
\* letter), "Under_score12" (no character of the special set), "Abcdefgh1!x"
\* (11 characters), "Abcdefgh1!xy" (12 characters)
PwAllLower == <<"a","l","l","l","o","w","e","r","c","a","s","e","!">>
PwAllUpper == <<"A","L","L","U","P","P","E","R","C","A","S","E","1">>
PwNoDigit == <<"N","o","D","i","g","i","t","s","H","e","r","e","X">>
PwNoLetter == <<"1","2","3","4","5","6","7","8","9","0","!","@","#">>
PwUnderscore == <<"U","n","d","e","r","_","s","c","o","r","e","1","2">>
PwEleven == <<"A","b","c","d","e","f","g","h","1","!","x">>
PwTwelve == <<"A","b","c","d","e","f","g","h","1","!","x","y">>

PolicyPasswords ==
    {PwSecure, PwWrong, PwNoSpecial, PwWeak, PwAllLower, PwAllUpper, PwNoDigit,
     PwNoLetter, PwUnderscore, PwEleven, PwTwelve}

\* passwords of 72 and 73 bytes that agree on their first 72
PwLong72 == PwSecure \o PwSecure \o PwSecure \o PwSecure
PwLong73A == PwLong72 \o <<"a">>
PwLong73B == PwLong72 \o <<"b">>

BcryptPasswords == {PwSecure, PwWrong, PwNoSpecial, PwLong72, PwLong73A, PwLong73B}
BcryptSalts == {"salt1", "salt2"}

\* validate_password_strength(password)
Validate(password) ==
    /\ last = Idle
    /\ last' = [op |-> "validate_password_strength", password |-> password,
                result |-> validate_password_strength(password), issued |-> {}]
    /\ UNCHANGED <<users, now, held, reqs, accepted, _engine, calls>>

\* verify_password(plain_password, hash_password(password))
HashThenVerify(build, password, plain_password, salt) ==
    LET hashed == hash_password_call(build, password, salt) IN
    /\ last = Idle
    /\ last' = [op |-> "verify_password", build |-> build,
                hashed_of |-> password, plain_password |-> plain_password,
                hashed |-> hashed,
                outcome |-> IF hashed.raised THEN Raised
                            ELSE verify_password_call(build, plain_password,
                                                      hashed.value),
                issued |-> {}]
    /\ UNCHANGED <<users, now, held, reqs, accepted, _engine, calls>>

\* verify_password(plain_password, hashed_password) on a stored string that
\* is no bcrypt hash
VerifyStored(build, plain_password, hashed_password) ==
    /\ last = Idle
    /\ last' = [op |-> "verify_password", build |-> build,
                hashed_of |-> None, plain_password |-> plain_password,
                hashed |-> Returned(hashed_password),
                outcome |-> verify_password_call(build, plain_password,
                                                 hashed_password),
                issued |-> {}]
    /\ UNCHANGED <<users, now, held, reqs, accepted, _engine, calls>>

NextPasswords ==
    \/ \E password \in PolicyPasswords : Validate(password)
    \/ \E build \in BcryptBuilds, password \in BcryptPasswords,
          plain_password \in BcryptPasswords, salt \in BcryptSalts :
          HashThenVerify(build, password, plain_password, salt)
    \/ \E build \in BcryptBuilds, plain_password \in BcryptPasswords :
          VerifyStored(build, plain_password, MalformedHash)
    \/ Respond

SpecPasswords == Init /\ [][NextPasswords]_vars

----------------------------------------------------------------------------
(* The protected endpoints of the user routes                              *)

\* str(d) of a datetime
StrDateTime(d) == [t |-> "str", text |-> d.utc]

\* GET /api/v1/users/me: the UserResponse built from the current user
get_current_user_profile(current_user) ==
    [user_id |-> current_user.user_id,
     email |-> current_user.email,
     status |-> current_user.status,
     role |-> current_user.role,
     email_verified |-> current_user.email_verified,
     point_balance |-> current_user.point_balance,
     last_login_at |-> IF current_user.last_login_at # None
                       THEN StrDateTime(current_user.last_login_at)
                       ELSE None]

\* GET /api/v1/users/me/points: the PointBalanceResponse; updated_at is the
\* row's timestamp column
get_current_user_points(current_user, updated_at) ==
    [user_id |-> current_user.user_id,
     point_balance |-> current_user.point_balance,
     last_updated |-> StrDateTime(updated_at)]

\* the registrations of the profile specification: the seeded and a new
\* email, a strong and a weak password
ProfileRequests ==
    [email : Emails, password : {PwSecure, PwNoSpecial},
     date_of_birth : {DobAdult}, state_of_residence : {"TX"}]

GetProfile(token) ==
    LET gate == get_current_user(users, token, now) IN
    /\ last = Idle
    /\ last' = [op |-> "get_current_user_profile", token |-> token,
                status |-> gate.status,
                response |-> IF gate.status = 200
                             THEN get_current_user_profile(gate.user)
                             ELSE None,
                issued |-> {}]
    /\ UNCHANGED <<users, now, held, reqs, accepted, _engine, calls>>

\* the row's updated_at is some instant up to now
GetPoints(token, updated_at) ==
    LET gate == get_current_user(users, token, now) IN
    /\ last = Idle
    /\ updated_at.utc <= now
    /\ last' = [op |-> "get_current_user_points", token |-> token,
                status |-> gate.status,
                response |-> IF gate.status = 200
                             THEN get_current_user_points(gate.user, updated_at)
                             ELSE None,
                issued |-> {}]
    /\ UNCHANGED <<users, now, held, reqs, accepted, _engine, calls>>

NextProfile ==
    \/ \E request \in ProfileRequests, salt \in Salts : Register(request, salt)
    \/ \E email \in Emails, password \in LoginPasswords : Login(email, password)
    \/ \E token \in Presentable : Refresh(token)
    \/ \E token \in Presentable : GetProfile(token)
    \/ \E token \in Presentable, t \in Instants : GetPoints(token, DateTime(t))
    \/ \E t \in Instants : Tick(t)
    \/ Respond

SpecProfile == InitSeeded /\ [][NextProfile]_vars

----------------------------------------------------------------------------
(* The premium subscription                                                *)

PremiumInstants == {0, 1, 2}

PremiumExpiries ==
    {None} \cup {DateTime(t) : t \in PremiumInstants}
           \cup {NaiveDateTime(t) : t \in PremiumInstants}

\* one active account of any role, with any expiry
PremiumSeedUsers ==
    {[User(PyStr(1), "a@example.com", hash_password(PwSecure, "salt1"),
           "active", role, TRUE, 500) EXCEPT !.premium_expires_at = expires] :
        role \in Roles, expires \in PremiumExpiries}

InitPremium ==
    /\ users \in {{u} : u \in PremiumSeedUsers}
    /\ now = 0
    /\ held = None
    /\ last = Idle
    /\ reqs = IdleRequests
    /\ accepted = None
    /\ _engine = None
    /\ calls = IdleCalls

\* user.is_premium
IsPremium(u) ==
    /\ last = Idle
    /\ u \in users
    /\ last' = [op |-> "is_premium", self |-> u, value |-> is_premium(u, now),
                issued |-> {}]
    /\ UNCHANGED <<users, now, held, reqs, accepted, _engine, calls>>

NextPremium ==
    \/ \E u \in users : IsPremium(u)
    \/ \E t \in PremiumInstants : Tick(t)
    \/ Respond

SpecPremium == InitPremium /\ [][NextPremium]_vars

----------------------------------------------------------------------------
(* The database engine: get_engine called from several threads             *)

\* the Engine object the call of thread t constructs
Engine(t) == [engine |-> t]

\* if _engine is None
TestEngine(t) ==
    /\ calls[t].pc = "idle"
    /\ calls' = [calls EXCEPT ![t].pc =
                    IF _engine = None THEN "create" ELSE "return"]
    /\ UNCHANGED <<users, now, held, last, reqs, accepted, _engine>>

\* create_engine(...): the value of the right-hand side
CreateEngine(t) ==
    /\ calls[t].pc = "create"
    /\ calls' = [calls EXCEPT ![t].pc = "store", ![t].made = Engine(t)]
    /\ UNCHANGED <<users, now, held, last, reqs, accepted, _engine>>

\* _engine = <that value>
StoreEngine(t) ==
    /\ calls[t].pc = "store"
    /\ _engine' = calls[t].made
    /\ calls' = [calls EXCEPT ![t].pc = "return"]
    /\ UNCHANGED <<users, now, held, last, reqs, accepted>>

\* return _engine; the thread may call get_engine again
ReturnEngine(t) ==
    /\ calls[t].pc = "return"
    /\ calls' = [calls EXCEPT ![t].pc = "idle",
                              ![t].returned = @ \cup {_engine}]
    /\ UNCHANGED <<users, now, held, last, reqs, accepted, _engine>>

NextEngine ==
    \/ \E t \in Threads : TestEngine(t)
    \/ \E t \in Threads : CreateEngine(t)
    \/ \E t \in Threads : StoreEngine(t)
    \/ \E t \in Threads : ReturnEngine(t)

SpecEngine == Init /\ [][NextEngine]_vars

----------------------------------------------------------------------------
(* Role gates while the stored role changes: tokens are issued for the     *)
(* stored account, an administrator changes its role, the tokens are used  *)

\* an administrative change of the role column
SetRole(u, role) ==
    /\ last = Idle
    /\ u \in users
    /\ role # u.role
    /\ users' = Save(users, u, [u EXCEPT !.role = role])
    /\ UNCHANGED <<now, held, last, reqs, accepted, _engine, calls>>

NextRoleChange ==
    \/ \E u \in users :
          IssuePair(u.user_id, u.email, u.role, ACCESS_TOKEN_EXPIRE_MINUTES)
    \/ \E u \in users, role \in Roles : SetRole(u, role)
    \/ \E allowed_roles \in AllowedRoleLists, token \in HeldTokens :
          RequireRole(allowed_roles, token)
    \/ \E token \in HeldTokens : GetCurrentAdmin(token)
    \/ \E token \in HeldTokens : Refresh(token)
    \/ Respond

SpecRoleChange == InitRoles /\ [][NextRoleChange]_vars

----------------------------------------------------------------------------
(* Soft deletion: a stored account is soft-deleted and restored while the  *)
(* core serves requests                                                    *)

\* user.soft_delete(); db.commit()
SoftDelete(u) ==
    /\ last = Idle
    /\ u \in users
    /\ ~is_deleted(u)
    /\ users' = Save(users, u, soft_delete(u, now))
    /\ UNCHANGED <<now, held, last, reqs, accepted, _engine, calls>>

\* user.restore(); db.commit()
RestoreDeleted(u) ==
    /\ last = Idle
    /\ u \in users
    /\ is_deleted(u)
    /\ users' = Save(users, u, restore(u))
    /\ UNCHANGED <<now, held, last, reqs, accepted, _engine, calls>>

NextSoftDelete ==
    \/ \E u \in users : SoftDelete(u)
    \/ \E u \in users : RestoreDeleted(u)
    \/ \E request \in ProfileRequests, salt \in Salts : Register(request, salt)
    \/ \E email \in Emails, password \in LoginPasswords : Login(email, password)
    \/ \E token \in Presentable : Refresh(token)
    \/ \E token \in Presentable : GetCurrentUser(token)
    \/ Respond

SpecSoftDelete == InitSeeded /\ [][NextSoftDelete]_vars

----------------------------------------------------------------------------
(* Properties                                                              *)

\* the account the held token pair was issued to
HeldPrincipal == FirstByEmail(users, held.access_token.claims.email)

\* the account a decodable presented token names, or None
Payload(token) == decode_token(token, now)
SubjectOf(token) == Get(Payload(token), "sub")
PrincipalOf(token) ==
    IF Payload(token) # None /\ Truthy(SubjectOf(token))
    THEN FirstById(users, SubjectOf(token))
    ELSE None

(* C1: every token a successful login issues (access and refresh) and the  *)
(* access token a successful refresh_access_token issues carry a sub claim *)
(* equal to the stored user_id of the account that logged in or was        *)
(* refreshed.                                                              *)
C1_IssuedTokensCarryStoredUserId ==
    /\ (last.op = "login" /\ last.result.success) =>
          \A k \in last.issued :
              k.claims.sub = FirstByEmail(users, last.email).user_id
    /\ (last.op = "refresh" /\ last.result.success) =>
          last.result.access_token.claims.sub = PrincipalOf(last.token).user_id

(* C2: the access token a successful login returned, presented to          *)
(* get_current_user before it expires while the account is still active,   *)
(* is answered 200 with that same account.                                 *)
C2_LoginTokenAdmitsItsPrincipal ==
    (/\ last.op = "get_current_user"
     /\ held # None
     /\ last.token = held.access_token
     /\ now < held.access_token.claims.exp
     /\ HeldPrincipal # None
     /\ HeldPrincipal.email_verified
     /\ HeldPrincipal.status = "active")
    => /\ last.response.status = 200
       /\ last.response.user = HeldPrincipal

(* C3: after register, verify_email and login, refresh_access_token called *)
(* with the refresh token of that login (unexpired, account still active)  *)
(* succeeds, and the new access token expires no earlier than the access   *)
(* token of the login.                                                     *)
C3_RefreshWithLoginTokenSucceeds ==
    (/\ last.op = "refresh"
     /\ held # None
     /\ last.token = held.refresh_token
     /\ now < held.refresh_token.claims.exp
     /\ HeldPrincipal # None
     /\ HeldPrincipal.status = "active")
    => /\ last.result.success
       /\ last.result.access_token.claims.exp >= held.access_token.claims.exp

(* C4: get_current_user returns only accounts whose stored status is       *)
(* active; a valid, unexpired token whose subject is a stored account that *)
(* is pending, suspended or banned is answered 403, not 401.               *)
C4_GateAdmitsOnlyActive ==
    last.op = "get_current_user" =>
        /\ last.response.status = 200 =>
              /\ last.response.user \in users
              /\ last.response.user.status = "active"
        /\ (PrincipalOf(last.token) # None
            /\ PrincipalOf(last.token).status # "active") =>
              last.response.status = 403

\* a token issued earlier, to an account that was active since (it logged in
\* this minute) and has been suspended after that, is answered 403
C4_SuspendedAfterIssueRefused ==
    /\ last.op = "get_current_user"
    /\ last.response.status = 403
    /\ PrincipalOf(last.token) # None
    /\ last.token.claims.iat < now
    /\ PrincipalOf(last.token).status = "suspended"
    /\ PrincipalOf(last.token).last_login_at = DateTime(now)

\* the register requests that have been answered
Answered == {r \in Requests : reqs[r].pc = "done"}

(* C5: of two register requests for the same email that both pass the      *)
(* uniqueness pre-check before either commits, at most one is answered     *)
(* with success, and at most one row with that email is stored.            *)
C5_ConcurrentRegistrationsOneWinner ==
    /\ \A e \in Emails : Cardinality({u \in users : u.email = e}) <= 1
    /\ \A r1, r2 \in Answered :
          (r1 # r2 /\ reqs[r1].request.email = reqs[r2].request.email) =>
              ~(reqs[r1].status = 201 /\ reqs[r2].status = 201)

\* both requests passed the pre-check (the service answered success to both);
\* one was committed and answered 201, the other was refused at its commit
C5_LoserRefusedAtCommit ==
    \E r1, r2 \in Answered :
        /\ r1 # r2
        /\ reqs[r1].request.email = reqs[r2].request.email
        /\ reqs[r1].status = 201
        /\ reqs[r2].result # None
        /\ reqs[r2].result.success
        /\ reqs[r2].status = 500
        /\ Cardinality({u \in users : u.email = reqs[r1].request.email}) = 1

\* the account the latest login named, or None
LoginPrincipal == FirstByEmail(users, last.email)

\* the answer the login route gives for an email nobody registered
UnknownEmailLogin ==
    login_endpoint({}, last.email, last.password, now, LoginUuidA, LoginUuidR)

C7_LoginSucceedsIffEligible ==
    last.op = "login" =>
        /\ last.result.success <=>
              /\ LoginPrincipal # None
              /\ verify_password(last.password, LoginPrincipal.password_hash)
              /\ LoginPrincipal.email_verified
              /\ LoginPrincipal.status = "active"
        /\ last.result.success =>
              /\ DOMAIN last.result =
                    {"success", "message", "access_token", "refresh_token", "user"}
              /\ decode_token(last.result.access_token, now) # None
              /\ decode_token(last.result.refresh_token, now) # None
              /\ last.result.user =
                    [user_id |-> LoginPrincipal.user_id,
                     email |-> LoginPrincipal.email,
                     role |-> LoginPrincipal.role,
                     point_balance |-> LoginPrincipal.point_balance]
        /\ ~last.result.success =>
              /\ DOMAIN last.result = {"success", "message"}
              /\ last.issued = {}

\* an active, verified admin with 500 points logs in
C7_AdminLoggedIn ==
    /\ last.op = "login"
    /\ last.result.success
    /\ last.status = 200
    /\ last.result.user.role = "admin"
    /\ last.result.user.point_balance = 500
    /\ LoginPrincipal.last_login_at = DateTime(now)

(* C8: when the password verifies, email_verified false gives the 'verify  *)
(* your email' failure whatever the status; otherwise banned gives the     *)
(* banned failure, suspended the suspended failure, any other non-active   *)
(* status the 'not active' failure; the four failures are pairwise         *)
(* distinct and distinct from the invalid-credentials failure.             *)
C8_LoginFailureOrder ==
    (/\ last.op = "login"
     /\ LoginPrincipal # None
     /\ verify_password(last.password, LoginPrincipal.password_hash))
    => /\ ~LoginPrincipal.email_verified =>
             last.result = Failure(MSG_VERIFY_EMAIL)
       /\ (LoginPrincipal.email_verified /\ LoginPrincipal.status = "banned") =>
             last.result = Failure(MSG_BANNED)
       /\ (LoginPrincipal.email_verified /\ LoginPrincipal.status = "suspended") =>
             last.result = Failure(MSG_SUSPENDED)
       /\ (/\ LoginPrincipal.email_verified
           /\ LoginPrincipal.status \notin {"active", "banned", "suspended"}) =>
             last.result = Failure(MSG_NOT_ACTIVE)
       /\ Cardinality({MSG_VERIFY_EMAIL, MSG_BANNED, MSG_SUSPENDED,
                       MSG_NOT_ACTIVE, MSG_INVALID_CREDENTIALS}) = 5

\* the right password on an unverified, banned account: 'verify your email'
C8_UnverifiedBannedToldToVerify ==
    /\ last.op = "login"
    /\ LoginPrincipal # None
    /\ verify_password(last.password, LoginPrincipal.password_hash)
    /\ ~LoginPrincipal.email_verified
    /\ LoginPrincipal.status = "banned"
    /\ last.result.message = MSG_VERIFY_EMAIL
    /\ last.status = 403

(* C9: refresh_access_token succeeds if and only if the token decodes      *)
(* (valid signature, unexpired), carries a subject, the subject resolves   *)
(* to a stored account and the status of that account is active; a         *)
(* success returns a new access token only, no refresh token.              *)
C9_RefreshSucceedsIffActivePrincipal ==
    last.op = "refresh" =>
        /\ last.result.success <=>
              /\ Payload(last.token) # None
              /\ Truthy(SubjectOf(last.token))
              /\ PrincipalOf(last.token) # None
              /\ PrincipalOf(last.token).status = "active"
        /\ last.result.success =>
              /\ DOMAIN last.result = {"success", "message", "access_token"}
              /\ last.issued = {last.result.access_token}
              /\ "type" \notin DOMAIN last.result.access_token.claims
              /\ decode_token(last.result.access_token, now) # None
              /\ last.status = 200

\* a refresh token issued earlier for a stored, active account is accepted
C9_OlderRefreshTokenAccepted ==
    /\ last.op = "refresh"
    /\ last.result.success
    /\ "type" \in DOMAIN last.token.claims
    /\ last.token.claims.type = "refresh"
    /\ last.token.claims.iat < now
    /\ PrincipalOf(last.token).status = "active"

\* the message refresh_access_token gives for the cause of a failure
RefreshFailureMessage(token) ==
    IF Payload(token) = None THEN MSG_REFRESH_INVALID
    ELSE IF ~Truthy(SubjectOf(token)) THEN MSG_REFRESH_PAYLOAD
    ELSE IF PrincipalOf(token) = None THEN MSG_REFRESH_NOT_FOUND
    ELSE MSG_REFRESH_INACTIVE

(* C10 (as stated): every failing refresh_access_token, whatever its       *)
(* cause, gives the caller one and the same failure: the one an            *)
(* undecodable token gets.                                                 *)
C10_OneGenericRefreshFailure ==
    (last.op = "refresh" /\ ~last.result.success) =>
        /\ last.result = refresh_access_token(users, MalformedToken, now, RefreshUuid)
        /\ last.detail =
              refresh_endpoint(users, MalformedToken, now, RefreshUuid).detail

(* C10 (amended): every failing refresh is answered 401 by the route,      *)
(* with the message of its cause as detail; the four causes (invalid or    *)
(* expired token, missing subject, unknown account, inactive account) have *)
(* four distinct messages.                                                 *)
C10_RefreshFailureIs401WithCause ==
    (last.op = "refresh" /\ ~last.result.success) =>
        /\ last.status = 401
        /\ last.result = Failure(RefreshFailureMessage(last.token))
        /\ last.detail = last.result.message
        /\ Cardinality({MSG_REFRESH_INVALID, MSG_REFRESH_PAYLOAD,
                        MSG_REFRESH_NOT_FOUND, MSG_REFRESH_INACTIVE}) = 4

\* a well-formed refresh token of a suspended account: 401, 'not active'
C10_InactiveRefreshNamed ==
    /\ last.op = "refresh"
    /\ ~last.result.success
    /\ last.status = 401
    /\ last.detail = MSG_REFRESH_INACTIVE
    /\ PrincipalOf(last.token).status = "suspended"

\* the account a token names, whether or not the token has expired
NamedBy(token) == FirstById(users, token.claims.sub)

(* C11: a refresh token is not invalidated by use: once                    *)
(* refresh_access_token has accepted a token, every later call with that   *)
(* token before its expiry, while the account is still active, is accepted *)
(* again, whatever logins, refreshes and other operations came in between. *)
C11_AcceptedRefreshTokenStaysAccepted ==
    /\ (/\ last.op = "refresh"
        /\ "earlier" \in DOMAIN last
        /\ last.earlier = last.token
        /\ now < last.token.claims.exp
        /\ NamedBy(last.token) # None
        /\ NamedBy(last.token).status = "active")
       => last.result.success
    /\ (/\ accepted # None
        /\ now < accepted.claims.exp
        /\ NamedBy(accepted) # None
        /\ NamedBy(accepted).status = "active")
       => refresh_access_token(users, accepted, now, RefreshUuid).success

\* a token accepted before is accepted again at a later minute, after the
\* account has logged in again
C11_AcceptedAgainAfterLogin ==
    /\ last.op = "refresh"
    /\ "earlier" \in DOMAIN last
    /\ last.earlier = last.token
    /\ last.result.success
    /\ last.token.claims.iat < now
    /\ NamedBy(last.token).last_login_at = DateTime(now)

\* the register request being answered: what register_user is called with,
\* if the request schema lets it through
Registrant == last.request
ServiceCalled == last.op = "register" /\ RegisterRequestValid(Registrant)
DuplicateEmail == FirstByEmail(last.before, Registrant.email) # None
WeakPassword == ~validate_password_strength(Registrant.password).valid
UnderAge ==
    /\ IsIsoDate(Registrant.date_of_birth)
    /\ _calculate_age(Registrant.date_of_birth, Today(now)) < MINIMUM_AGE
OfAge ==
    /\ IsIsoDate(Registrant.date_of_birth)
    /\ _calculate_age(Registrant.date_of_birth, Today(now)) >= MINIMUM_AGE
IneligibleState == Upper(Registrant.state_of_residence) \in INELIGIBLE_STATES

(* C12: register_user checks email uniqueness, then the password policy,   *)
(* then the age, then the state; the failure it reports is that of the     *)
(* first rule violated in this order.                                      *)
C12_RegisterReportsFirstViolatedRule ==
    ServiceCalled =>
        /\ DuplicateEmail => last.result = Failure(MSG_EXISTS)
        /\ (~DuplicateEmail /\ WeakPassword) =>
              last.result =
                 Failure(validate_password_strength(Registrant.password).message)
        /\ (~DuplicateEmail /\ ~WeakPassword /\ UnderAge) =>
              last.result = Failure(MSG_UNDERAGE)
        /\ (~DuplicateEmail /\ ~WeakPassword /\ OfAge /\ IneligibleState) =>
              last.result = Failure(MsgIneligible(Registrant.state_of_residence))

\* a duplicate email with a weak password, under age, from an ineligible
\* state: the duplicate is reported
C12_DuplicateReportedFirst ==
    /\ ServiceCalled
    /\ DuplicateEmail
    /\ WeakPassword
    /\ UnderAge
    /\ IneligibleState
    /\ last.result = Failure(MSG_EXISTS)

\* the rows the registration being answered has added to the store
Registered == users \ last.before

(* C13: a successful register_user adds exactly one account to the store,  *)
(* with the given email, status pending, role user, email_verified false   *)
(* and point_balance 0, and returns the user_id and the email of that      *)
(* account.                                                                *)
C13_RegisterAddsOnePendingUser ==
    (last.op = "register" /\ last.result # None /\ last.result.success) =>
        /\ last.before \subseteq users
        /\ Cardinality(Registered) = 1
        /\ \A u \in Registered :
              /\ u.email = Registrant.email
              /\ u.status = "pending"
              /\ u.role = "user"
              /\ u.email_verified = FALSE
              /\ u.email_verified_at = None
              /\ u.point_balance = 0
              /\ verify_password(Registrant.password, u.password_hash)
              /\ last.result.user_id = u.user_id
              /\ last.result.email = u.email
        /\ DOMAIN last.result = {"success", "message", "user_id", "email"}
        /\ last.status = 201

\* a second account is registered next to the first
C13_SecondUserRegistered ==
    /\ last.op = "register"
    /\ last.result # None
    /\ last.result.success
    /\ Cardinality(last.before) = 1
    /\ Cardinality(users) = 2
    /\ Registrant.state_of_residence = "TX"

(* C14: with registrations made one after the other, each committed, no    *)
(* two stored accounts share an email: once an email is registered, every  *)
(* later register_user with it fails with 'already exists' (409), whatever *)
(* the password, the date of birth and the state are.                      *)
C14_RegisteredEmailStaysUnique ==
    /\ \A u, v \in users : u.email = v.email => u = v
    /\ (ServiceCalled /\ DuplicateEmail) =>
          /\ last.result = Failure(MSG_EXISTS)
          /\ last.status = 409
          /\ users = last.before

\* a second registration with a registered email, otherwise acceptable, is
\* refused as a duplicate
C14_SecondRegistrationRefused ==
    /\ ServiceCalled
    /\ DuplicateEmail
    /\ ~WeakPassword
    /\ OfAge
    /\ ~IneligibleState
    /\ last.status = 409
    /\ Cardinality({u \in users : u.email = Registrant.email}) = 1

(* C15: the register endpoint answers a failed registration by its cause:  *)
(* a duplicate email 409, a weak password 422, under age or an ineligible  *)
(* state 400; no cause is answered with the status of another.             *)
C15_RegisterFailureStatusByCause ==
    (last.op = "register" /\ last.result # None /\ ~last.result.success) =>
        /\ last.status \in {409, 422, 400}
        /\ last.status = 409 <=> DuplicateEmail
        /\ last.status = 422 <=> (~DuplicateEmail /\ WeakPassword)
        /\ last.status = 400 <=>
              /\ ~DuplicateEmail
              /\ ~WeakPassword
              /\ UnderAge \/ IneligibleState

\* a password without a special character, sent from an ineligible state,
\* is answered 422
C15_WeakPasswordAnswered422 ==
    /\ last.op = "register"
    /\ last.result # None
    /\ ~last.result.success
    /\ ~DuplicateEmail
    /\ WeakPassword
    /\ IneligibleState
    /\ last.status = 422

\* the account verify_email was applied to, as it is stored now
Verified == FirstById(users, last.before.user_id)

(* C16: verify_email sets email_verified, records email_verified_at, and   *)
(* changes the status only from pending to active: an active, suspended or *)
(* banned account keeps its status; no other field changes.                *)
C16_VerifyEmailActivatesOnlyPending ==
    last.op = "verify_email" =>
        /\ Verified # None
        /\ Verified.email_verified
        /\ Verified.email_verified_at = DateTime(now)
        /\ last.before.status = "pending" => Verified.status = "active"
        /\ last.before.status # "pending" => Verified.status = last.before.status
        /\ [Verified EXCEPT !.email_verified = last.before.email_verified,
                            !.email_verified_at = last.before.email_verified_at,
                            !.status = last.before.status] = last.before

\* verify_email on a suspended account, at a later minute: still suspended
C16_SuspendedStaysSuspended ==
    /\ last.op = "verify_email"
    /\ last.before.status = "suspended"
    /\ last.before.email_verified_at # DateTime(now)
    /\ Verified.status = "suspended"

(* C17: verify_email applied to an account that is already active and     *)
(* already verified changes no field of it.                                *)
C17_VerifyEmailOnVerifiedIsNoOp ==
    (/\ last.op = "verify_email"
     /\ last.before.status = "active"
     /\ last.before.email_verified)
    => Verified = last.before

(* C18: the operations of the core (register, verify_email, login,         *)
(* refresh, get_current_user) never set a status to suspended or banned    *)
(* and never change the status of a banned account: a new account starts   *)
(* pending, and the only change of a status is pending to active, made by  *)
(* verify_email.                                                           *)
C18_CoreOnlyActivatesPending ==
    [][(last = Idle /\ last' # Idle) =>
          \A v \in users' :
              IF FirstById(users, v.user_id) = None
              THEN last'.op = "register" /\ v.status = "pending"
              ELSE \/ v.status = FirstById(users, v.user_id).status
                   \/ /\ last'.op = "verify_email"
                      /\ last'.before = FirstById(users, v.user_id)
                      /\ last'.before.status = "pending"
                      /\ v.status = "active"]_vars

\* verify_email applied to a banned account leaves it banned
C18_BannedStaysBanned ==
    /\ last.op = "verify_email"
    /\ last.before.status = "banned"
    /\ Verified.status = "banned"

(* C19: in every state reached through register, verify_email, login,      *)
(* refresh and the administrative transitions, an active account has       *)
(* email_verified true and a pending account has email_verified false.     *)
C19_StatusAndVerifiedCorrelated ==
    \A u \in users :
        /\ u.status = "active" => u.email_verified
        /\ u.status = "pending" => ~u.email_verified

\* a pending account next to a verified, active one that has just logged in
C19_PendingNextToRestored ==
    \E u, v \in users :
        /\ u.status = "pending"
        /\ ~u.email_verified
        /\ v.status = "active"
        /\ v.email_verified
        /\ last.op = "login"
        /\ last.email = v.email
        /\ last.result.success

(* C20: get_current_user answers 401 when decode_token gives None, when    *)
(* the payload has no sub, and when no account has that identifier; in the *)
(* first two cases the answer does not depend on the store.                *)
C20_GateAuthenticationFailures ==
    last.op = "get_current_user" =>
        /\ Payload(last.token) = None =>
              /\ last.response.status = 401
              /\ last.response.detail = <<"Invalid","or","expired","credentials">>
              /\ last.response = get_current_user({}, last.token, now)
        /\ (Payload(last.token) # None /\ ~Truthy(SubjectOf(last.token))) =>
              /\ last.response.status = 401
              /\ last.response.detail = <<"Invalid","token","payload">>
              /\ last.response = get_current_user({}, last.token, now)
        /\ (/\ Payload(last.token) # None
            /\ Truthy(SubjectOf(last.token))
            /\ FirstById(users, SubjectOf(last.token)) = None) =>
              /\ last.response.status = 401
              /\ last.response.detail = <<"User","not","found">>
              /\ last.response.user = None

\* a well-signed, unexpired token of an identifier nobody has is answered 401
C20_UnknownSubjectUnauthorized ==
    /\ last.op = "get_current_user"
    /\ Payload(last.token) # None
    /\ Truthy(SubjectOf(last.token))
    /\ FirstById(users, SubjectOf(last.token)) = None
    /\ users # {}
    /\ last.response.status = 401

\* the roles of a role list
RolesIn(allowed_roles) == {allowed_roles[i] : i \in 1..Len(allowed_roles)}

(* C21: the role checker of require_role(allowed_roles) returns the        *)
(* account unchanged if and only if its role is one of allowed_roles;      *)
(* otherwise it fails with 403 and a detail that lists the allowed roles.  *)
C21_RoleCheckerPassesAllowedRoles ==
    (last.op = "require_role" /\ last.gate.status = 200) =>
        /\ last.response.status \in {200, 403}
        /\ last.response.status = 200 <=>
              last.gate.user.role \in RolesIn(last.allowed_roles)
        /\ last.response.status = 200 =>
              /\ last.response.user = last.gate.user
              /\ last.response.user \in users
        /\ last.response.status = 403 =>
              /\ last.response.user = None
              /\ \A r \in RolesIn(last.allowed_roles) :
                    \E i \in 1..Len(last.response.detail) :
                        last.response.detail[i] = r

\* an admin passes require_role("premium", "admin"), as the second of the two
C21_AdminPassesAsSecondOfTwo ==
    /\ last.op = "require_role"
    /\ last.allowed_roles = <<"premium", "admin">>
    /\ last.gate.status = 200
    /\ last.gate.user.role = "admin"
    /\ last.response.status = 200

(* C22: get_current_admin is require_role("admin"): for every account the  *)
(* two give the same outcome, the account when its role is admin and       *)
(* otherwise the same 403 error.                                           *)
C22_AdminGateIsRequireRoleAdmin ==
    (last.op = "get_current_admin" /\ last.gate.status = 200) =>
        last.response = require_role(<<"admin">>, last.gate.user)

(* C23: decode_token returns the claims only when the signature check and  *)
(* the expiry check both pass: for an expired token (one issued with a     *)
(* negative TTL included), a malformed token, a token with an altered      *)
(* signature or another algorithm it returns None.                         *)
C23_DecodeNeedsSignatureAndExpiry ==
    last.op = "decode_token" =>
        /\ last.payload # None =>
              /\ last.token \in HeldTokens
              /\ ~(last.token.claims.exp < now)
              /\ last.payload = last.token.claims
        /\ last.token \notin HeldTokens => last.payload = None
        /\ (last.token \in HeldTokens /\ last.token.claims.exp < now) =>
              last.payload = None
        /\ (last.token \in HeldTokens /\ now < last.token.claims.exp) =>
              last.payload = last.token.claims

\* an access token issued with a negative TTL, decoded in the minute it was
\* issued, gives None
C23_BornExpiredRejected ==
    /\ last.op = "decode_token"
    /\ held # None
    /\ last.token = held.access_token
    /\ held.args.expires_delta = -1
    /\ last.token.claims.iat = now
    /\ last.payload = None

(* C24: decode_token(create_access_token(id, email, role)) within the TTL  *)
(* gives claims with sub = str(id), the same email and the same role, and  *)
(* exp and iat; with its signature altered the token decodes to None.      *)
C24_AccessTokenRoundTrip ==
    (last.op = "decode_token" /\ held # None) =>
        /\ (last.token = held.access_token /\ now < last.token.claims.exp) =>
              /\ last.payload # None
              /\ DOMAIN last.payload = {"sub", "email", "role", "exp", "iat"}
              /\ last.payload.sub = Str(held.args.user_id)
              /\ last.payload.email = held.args.email
              /\ last.payload.role = held.args.role
              /\ last.payload.exp = last.payload.iat + held.args.expires_delta
        /\ last.token = Tamper(held.access_token) => last.payload = None

\* the token of a UUID, decoded some minutes after it was issued: the sub is
\* the string of that UUID
C24_UuidComesBackAsString ==
    /\ last.op = "decode_token"
    /\ held # None
    /\ last.token = held.access_token
    /\ held.args.user_id = PyUuid(1)
    /\ held.args.role = "premium"
    /\ last.token.claims.iat < now
    /\ last.payload # None
    /\ last.payload.sub = PyStr(1)

(* C25: of an access token and a refresh token issued at the same instant  *)
(* with the default TTLs, the refresh token expires strictly later.        *)
C25_RefreshOutlivesAccess ==
    (/\ held # None
     /\ held.access_token.claims.iat = held.refresh_token.claims.iat
     /\ held.access_token.claims.exp =
           held.access_token.claims.iat + ACCESS_TOKEN_EXPIRE_MINUTES)
    => held.refresh_token.claims.exp > held.access_token.claims.exp

\* a pair issued after the start with the default TTLs: 30 minutes and 7 days
C25_DefaultPairIssued ==
    /\ held # None
    /\ last.op = "issue"
    /\ held.args.expires_delta = ACCESS_TOKEN_EXPIRE_MINUTES
    /\ held.access_token.claims.iat > 0
    /\ held.access_token.claims.exp = now + 30
    /\ held.refresh_token.claims.exp = now + 7 * 24 * 60

\* the five rules of the password policy, in their order, and their messages
PolicyRules(password) ==
    <<Len(password) >= 12,
      \E i \in 1..Len(password) : password[i] \in UpperChars,
      \E i \in 1..Len(password) : password[i] \in LowerChars,
      \E i \in 1..Len(password) : password[i] \in DigitChars,
      \E i \in 1..Len(password) : password[i] \in SpecialChars>>
PolicyMessages ==
    <<MSG_PW_LENGTH, MSG_PW_UPPER, MSG_PW_LOWER, MSG_PW_DIGIT, MSG_PW_SPECIAL>>
ViolatedRules(password) == {i \in 1..5 : ~PolicyRules(password)[i]}
FirstViolatedRule(password) ==
    CHOOSE i \in ViolatedRules(password) :
        \A j \in ViolatedRules(password) : i <= j

(* C26: validate_password_strength checks length at least 12, uppercase,   *)
(* lowercase, digit, special character in this order and reports the first *)
(* violated rule; a password is valid exactly when all five rules pass.    *)
C26_PolicyReportsFirstViolatedRule ==
    last.op = "validate_password_strength" =>
        /\ last.result.valid <=> ViolatedRules(last.password) = {}
        /\ last.result.valid => last.result.message = MSG_PW_STRONG
        /\ ~last.result.valid =>
              last.result.message =
                 PolicyMessages[FirstViolatedRule(last.password)]

\* a password of 13 characters without any letter: the uppercase rule is
\* reported, not the lowercase rule
C26_NoLetterReportsUppercase ==
    /\ last.op = "validate_password_strength"
    /\ ViolatedRules(last.password) = {2, 3}
    /\ last.result.message = MSG_PW_UPPER

(* C29: verify_password never raises: for every password and every stored  *)
(* hash string it returns a boolean, and False for a string that is no     *)
(* bcrypt hash.                                                            *)
C29_VerifyPasswordNeverRaises ==
    (last.op = "verify_password" /\ ~last.hashed.raised) =>
        /\ ~last.outcome.raised
        /\ last.outcome.value \in BOOLEAN
        /\ last.hashed.value = MalformedHash => last.outcome.value = FALSE

(* C30: verify_password(p, hash_password(p)) is true for every password p, *)
(* and verify_password(p1, hash_password(p2)) is false for every two       *)
(* different passwords.                                                    *)
C30_PasswordMatchesOnlyItsOwnHash ==
    (last.op = "verify_password" /\ last.hashed_of # None) =>
        /\ ~last.hashed.raised
        /\ ~last.outcome.raised
        /\ last.outcome.value <=> last.plain_password = last.hashed_of

\* a < b for two calendar dates
DateBefore(a, b) ==
    \/ a[1] < b[1]
    \/ a[1] = b[1] /\ a[2] < b[2]
    \/ a[1] = b[1] /\ a[2] = b[2] /\ a[3] < b[3]

\* the age in full years: the anniversaries of birth_date that today has reached
CalendarAge(birth_date, today) ==
    Cardinality({y \in (birth_date[1] + 1)..today[1] :
                    ~DateBefore(today, <<y, birth_date[2], birth_date[3]>>)})

\* the registration reached the age check
AgeChecked ==
    /\ ServiceCalled
    /\ ~DuplicateEmail
    /\ ~WeakPassword
    /\ IsIsoDate(Registrant.date_of_birth)

(* C27: register_user computes the age in full calendar years and rejects  *)
(* exactly the ages below 18: a registration that reaches the age check    *)
(* gets the age failure if and only if the 18th birthday is still ahead.   *)
C27_RejectsExactlyAgesBelowEighteen ==
    AgeChecked =>
        /\ last.result = Failure(MSG_UNDERAGE)
              <=> CalendarAge(Registrant.date_of_birth, Today(now)) < MINIMUM_AGE
        /\ (Registrant.date_of_birth = DobEighteenToday /\ Today(now) = EpochDate)
              => last.result # Failure(MSG_UNDERAGE)

\* a registrant whose 18th birthday is tomorrow is refused for the age
C27_EighteenTomorrowRejected ==
    /\ AgeChecked
    /\ Today(now) = EpochDate
    /\ Registrant.date_of_birth = DobEighteenTomorrow
    /\ last.result = Failure(MSG_UNDERAGE)
    /\ last.status = 400

(* C28: register_user reports every failure as a returned failure result   *)
(* and never by raising: every registration the service is called with,    *)
(* a date of birth that is no ISO date included, gets a result back and is *)
(* not answered 500.                                                       *)
C28_RegisterNeverRaises ==
    ServiceCalled =>
        /\ last.status # 500
        /\ last.result # None

\* the structure the latest operation handed back to its caller, or None
ReturnedStructure ==
    IF last.op \in {"register", "login", "refresh"} THEN last.result
    ELSE IF last.op \in {"get_current_user_profile", "get_current_user_points"}
    THEN last.response
    ELSE None

\* the field names of a returned structure, those of the principal summary and
\* of the claims of the tokens inside it included
FieldNames(r) ==
    DOMAIN r
    \cup (IF "user" \in DOMAIN r THEN DOMAIN r.user ELSE {})
    \cup (IF "access_token" \in DOMAIN r THEN DOMAIN r.access_token.claims ELSE {})
    \cup (IF "refresh_token" \in DOMAIN r THEN DOMAIN r.refresh_token.claims ELSE {})

\* the values of a returned structure that are not plain texts or numbers
StructuredValues(r) ==
    {r[f] : f \in DOMAIN r \cap {"user_id", "user", "access_token",
                                  "refresh_token", "last_login_at", "last_updated"}}
    \cup (IF "user" \in DOMAIN r THEN {r.user.user_id} ELSE {})
    \cup (IF "access_token" \in DOMAIN r
          THEN {r.access_token.claims.sub, r.access_token.sig} ELSE {})
    \cup (IF "refresh_token" \in DOMAIN r
          THEN {r.refresh_token.claims.sub, r.refresh_token.sig} ELSE {})

(* C31: no structure returned to a caller contains the password hash: the  *)
(* results of register_user, login and refresh_access_token and the        *)
(* profile and point-balance responses have no password_hash field and no  *)
(* value that is the stored hash of any principal.                         *)
C31_NoPasswordHashReturned ==
    ReturnedStructure # None =>
        /\ "password_hash" \notin FieldNames(ReturnedStructure)
        /\ \A u \in users :
              u.password_hash \notin StructuredValues(ReturnedStructure)

\* a profile was returned for an account that has logged in
C31_ProfileOfLoggedInAccount ==
    /\ last.op = "get_current_user_profile"
    /\ last.status = 200
    /\ last.response.last_login_at # None
    /\ \E u \in users : u.user_id = last.response.user_id
                         /\ u.password_hash.digest.of = PwSecure

\* the login being answered failed its credentials: no account has the
\* email, or the password does not verify
BadCredentials ==
    \/ LoginPrincipal = None
    \/ ~verify_password(last.password, LoginPrincipal.password_hash)

ExpiryInstant(expires) ==
    IF "naive" \in DOMAIN expires THEN expires.naive ELSE expires.utc

(* C33: is_premium is true if and only if the role is 'premium', an expiry *)
(* is stored, and the expiry (a naive value read as UTC) is strictly after *)
(* the current time; an expiry equal to the current time gives false.      *)
C33_PremiumIffUnexpiredPremiumRole ==
    last.op = "is_premium" =>
        /\ last.value <=>
              /\ last.self.role = "premium"
              /\ last.self.premium_expires_at # None
              /\ ExpiryInstant(last.self.premium_expires_at) > now
        /\ (/\ last.self.premium_expires_at # None
            /\ ExpiryInstant(last.self.premium_expires_at) = now)
              => ~last.value

\* a premium account whose naive expiry is the current minute is not premium
C33_NaiveExpiryNowNotPremium ==
    /\ last.op = "is_premium"
    /\ last.self.role = "premium"
    /\ last.self.premium_expires_at = NaiveDateTime(now)
    /\ now > 0
    /\ ~last.value

\* the engines created so far and the engines handed to callers so far
EnginesCreated == {calls[t].made : t \in Threads} \ {None}
EnginesReturned == UNION {calls[t].returned : t \in Threads}

(* C34: every call to get_engine returns the same Engine instance and at   *)
(* most one engine is ever created in a process, also when the first calls *)
(* are made concurrently.                                                  *)
C34_OneEngineForAllCallers ==
    /\ Cardinality(EnginesCreated) <= 1
    /\ Cardinality(EnginesReturned) <= 1

\* the kind of a decodable token: a refresh token carries type = 'refresh'
IsRefreshToken(token) ==
    /\ "claims" \in DOMAIN token
    /\ "type" \in DOMAIN token.claims
    /\ token.claims.type = "refresh"

(* C35: token kinds are not interchangeable: refresh_access_token accepts  *)
(* only tokens whose type claim is 'refresh', and get_current_user accepts *)
(* only access tokens, never a refresh token.                              *)
C35_TokenKindsNotInterchangeable ==
    /\ (last.op = "refresh" /\ last.result.success) => IsRefreshToken(last.token)
    /\ (last.op = "get_current_user" /\ last.response.status = 200)
          => ~IsRefreshToken(last.token)

(* C36: authorization decisions use the stored role, never the role claim *)
(* of the token: require_role and get_current_admin decide by the role the *)
(* account has in the store now, also for an unexpired token that carries  *)
(* an older role, and an access token issued by refresh_access_token       *)
(* carries the role and the email stored at refresh time.                  *)
C36_DecisionsUseStoredRole ==
    /\ (last.op = "require_role" /\ last.gate.status = 200) =>
          (last.response.status = 200
             <=> PrincipalOf(last.token).role \in RolesIn(last.allowed_roles))
    /\ (last.op = "get_current_admin" /\ last.gate.status = 200) =>
          (last.response.status = 200 <=> PrincipalOf(last.token).role = "admin")
    /\ (last.op = "refresh" /\ last.result.success) =>
          /\ last.result.access_token.claims.role = PrincipalOf(last.token).role
          /\ last.result.access_token.claims.email = PrincipalOf(last.token).email

\* a token issued while the account was an admin is refused by the admin
\* gate once the stored role is 'user'
C36_FormerAdminRefused ==
    /\ last.op = "get_current_admin"
    /\ held # None
    /\ last.token = held.access_token
    /\ last.token.claims.role = "admin"
    /\ last.gate.status = 200
    /\ PrincipalOf(last.token).role = "user"
    /\ last.response.status = 403

\* the step that serves a request of the given operation
Serves(op) == last = Idle /\ last' # Idle /\ last'.op = op

\* the two stores differ in at most the last_login_at of the account with
\* the given email
OnlyLastLoginOf(email, before, after) ==
    \E u \in before, v \in after :
        /\ u.email = email
        /\ after \ {v} = before \ {u}
        /\ [v EXCEPT !.last_login_at = u.last_login_at] = u

C38_SoftDeletedNeverAdmitted ==
    /\ (last.op = "login" /\ LoginPrincipal # None /\ is_deleted(LoginPrincipal))
          => ~last.result.success
    /\ (last.op = "refresh" /\ PrincipalOf(last.token) # None
                            /\ is_deleted(PrincipalOf(last.token)))
          => ~last.result.success
    /\ (last.op = "get_current_user" /\ PrincipalOf(last.token) # None
                                     /\ is_deleted(PrincipalOf(last.token)))
          => last.response.status # 200
    /\ (last.op = "register" /\ last.result # None)
          => (last.result = Failure(MSG_EXISTS)
                <=> FirstByEmail(last.before, last.request.email) # None)

====
